---- MODULE Spec2Model ----
(***************************************************************************)
(* A model of the code-chunker pipeline of vscode-codeBase: the chunkers   *)
(* (AST parsers with their adjacent-merge pass, the JavaScript parser and  *)
(* the line chunker of BaseParser), the index cache (IndexCache over       *)
(* CacheDatabase), CodeChunker.processWorkspace, ProgressTracker and      *)
(* MerkleTreeManager.                                                      *)
(*                                                                         *)
(* Text is modelled symbolically.  A file is a sequence of lines; every    *)
(* non-empty line has a text of its own, of which the model keeps the byte *)
(* width.  A string is a sequence of pieces: a newline, or the tail of a   *)
(* line from some byte column on.  Two strings are equal iff their piece   *)
(* sequences are equal, and the byte length of a string is the sum of the  *)
(* lengths of its pieces.                                                  *)
(***************************************************************************)
EXTENDS Integers, Sequences, FiniteSets, TLC

VARIABLES
    file,           \* the file being chunked: the byte width of each line
    nodes,          \* the AST nodes of the file, in the order of a tree walk
    linesPerChunk,  \* BaseParser.linesPerChunk
    chunks,         \* the chunk list the last chunker returned
    parser,         \* which chunker produced chunks ("none" before any ran)
    parseThrows     \* whether every parse attempt of the grammar threw

chunkVars == <<file, nodes, linesPerChunk, chunks, parser, parseThrows>>

VARIABLES
    table,          \* the rows of cache_entries
    now,            \* the clock, in hours
    config,         \* IndexCache.config
    ret,            \* the last call on the cache and what it returned
    lastSet,        \* per (path, hash): the data last passed to set, or NULL
    accessed        \* per (path, hash): when it was last set or hit; -1 if never

cacheVars == <<table, now, config, ret, lastSet, accessed>>

\* concurrent callers of the cache: each call's position and locals, and the
\* number of calls made so far
VARIABLES calls, started

concVars == <<calls, started>>

\* the pipeline: the scanned files, the chunks each file's parse yields, the
\* cache stores not yet executed, the stores that failed, and the record of
\* every run
VARIABLES
    fileList,
    chunkCount,
    cacheStorePromises,
    failedStores,
    runs

pipeVars == <<fileList, chunkCount, cacheStorePromises, failedStores, runs>>

\* a ProgressTracker, and whether the last call on it recomputed the file
\* statuses from the chunks
VARIABLES tracker, lastCall

trackerVars == <<tracker, lastCall>>

\* MerkleTreeManager: the state file on disk, the fields of the manager and
\* what its last call returned
VARIABLES stateFile, currentState, lastState, isInitialized, merkleRet

merkleVars == <<stateFile, currentState, lastState, isInitialized, merkleRet>>

\* the parser side: what the plugin registry and the configuration hold, the
\* last call of selectParser, and the position and locals of one
\* parseContent call
VARIABLES registry, selected, ladder

parseVars == <<registry, selected, ladder>>

\* IndexCacheService: the object, its cache file and its file operations
VARIABLES service

serviceVars == <<service>>

otherVars == <<concVars, pipeVars, trackerVars, merkleVars, parseVars, serviceVars>>

vars == <<chunkVars, cacheVars, concVars, pipeVars, trackerVars, merkleVars, parseVars, serviceVars>>

(***************************************************************************)
(* Bounds of the model and constants of the program.                       *)
(***************************************************************************)
MaxLines == 4           \* lines of a file
MaxNodes == 3           \* AST nodes of a file that fall in a category
MaxLinesPerChunk == 2   \* values of linesPerChunk tried
SmallLine == 8          \* byte width of a short line
Indent == 4             \* byte column at which an indented node starts

MaxTime == 3            \* the clock runs from 0 to MaxTime hours
TtlHours == 1           \* the configured ttlHours
MaxEntries == 2         \* the configured maxEntries
MaxSizeMB == 1          \* the configured maxSizeMB
MaxCalls == 2           \* calls of the cache in flight at once
MaxStarted == 3         \* calls of the cache made by the concurrent callers
MaxRuns == 2            \* runs of processWorkspace
MaxChunkCount == 2      \* chunks the parse of one file yields
MaxChunkIds == 2        \* chunk ids known to a ProgressTracker
MaxParts == 2           \* split parts of a chunk that report a status

maxChunkSize == 9216    \* 9 * 1024
compressionThreshold == 1024
evictionBatch == 100

HalfLine == maxChunkSize \div 2
LongLine == maxChunkSize + 1
\* a line that fills the chunk cap together with a line of HalfLine bytes
\* and the newline between them
UnderHalfLine == maxChunkSize - HalfLine - 1
LineWidths == {0, SmallLine, UnderHalfLine, HalfLine, LongLine}

NodeTypes == {"function", "variable"}

(***************************************************************************)
(* Strings as sequences of pieces.                                         *)
(***************************************************************************)
NL == [ln |-> 0, from |-> 0]

Piece(f, i, c) == IF f[i] - c > 0 THEN <<[ln |-> i, from |-> c]>> ELSE <<>>

RECURSIVE Newlines(_)
Newlines(n) == IF n <= 0 THEN <<>> ELSE <<NL>> \o Newlines(n - 1)

RECURSIVE ByteLength(_, _)
ByteLength(f, s) ==
    IF s = <<>> THEN 0
    ELSE (IF Head(s) = NL THEN 1 ELSE f[Head(s).ln] - Head(s).from)
         + ByteLength(f, Tail(s))

\* lines.slice(s - 1, e).join('\n'), the first line taken from byte column c
RECURSIVE JoinLines(_, _, _, _)
JoinLines(f, s, e, c) ==
    IF s > e \/ s > Len(f) THEN <<>>
    ELSE Piece(f, s, c)
         \o (IF s < e /\ s < Len(f) THEN <<NL>> \o JoinLines(f, s + 1, e, 0) ELSE <<>>)

IsBlank(s) == \A k \in 1..Len(s) : s[k] = NL

(***************************************************************************)
(* BaseParser: the line chunker.                                           *)
(***************************************************************************)
_createChunk(content, startLine, endLine, type) ==
    [chunkId |-> <<startLine, endLine>>, startLine |-> startLine,
     endLine |-> endLine, content |-> content, type |-> type]

RECURSIVE SplitLoop(_, _, _, _, _, _, _)
SplitLoop(f, lpc, i, count, currentSize, startLine, out) ==
    IF i > Len(f)
    THEN IF count > 0
         THEN Append(out, _createChunk(JoinLines(f, startLine, startLine + count - 1, 0),
                                       startLine, startLine + count - 1, "line_based"))
         ELSE out
    ELSE LET lineSize == f[i] + 1
             flush == count >= lpc \/ currentSize + lineSize > maxChunkSize
             out2 == IF flush /\ count > 0
                     THEN Append(out, _createChunk(
                              JoinLines(f, startLine, startLine + count - 1, 0),
                              startLine, startLine + count - 1, "line_based"))
                     ELSE out
         IN  IF flush
             THEN SplitLoop(f, lpc, i + 1, 1, lineSize, i, out2)
             ELSE SplitLoop(f, lpc, i + 1, count + 1, currentSize + lineSize, startLine, out2)

\* a loop that starts at the second line
SplitFromSecondLine(f, lpc) == SplitLoop(f, lpc, 2, 0, 0, 2, <<>>)

\* a loop that lets a chunk grow by one line more
SplitOneLineLater(f, lpc) == SplitLoop(f, lpc + 1, 1, 0, 0, 1, <<>>)

_splitIntoChunks(f, lpc) == SplitLoop(f, lpc, 1, 0, 0, 1, <<>>)

\* !content: the empty string is the file of one line of width 0
IsEmptyContent(f) == f = <<0>>

BaseParse(f, lpc) == IF IsEmptyContent(f) THEN <<>> ELSE _splitIntoChunks(f, lpc)

(***************************************************************************)
(* GoParser (the other merging parsers repeat its code).                   *)
(***************************************************************************)
GoTypeOrder == <<"module", "constant", "variable", "type", "function", "comment", "other">>

\* buffer.slice(startByte, endByte): the node's text starts at its own column
_extractNodeCode(f, node) == JoinLines(f, node.startLine, node.endLine, node.col)

\* the name an extractor finds in the node, "" when it finds none
NodeName(node) == IF "name" \in DOMAIN node THEN node.name ELSE ""

GoCandidate(f, node) ==
    [type |-> node.type, content |-> _extractNodeCode(f, node),
     startLine |-> node.startLine, endLine |-> node.endLine,
     name |-> NodeName(node)]

RECURSIVE MapCandidates(_, _)
MapCandidates(f, ns) ==
    IF ns = <<>> THEN <<>> ELSE <<GoCandidate(f, Head(ns))>> \o MapCandidates(f, Tail(ns))

OfType(ns, t) == SelectSeq(ns, LAMBDA n : n.type = t)

RECURSIVE ExtractAll(_, _, _, _)
ExtractAll(f, ns, order, k) ==
    IF k > Len(order) THEN <<>>
    ELSE MapCandidates(f, OfType(ns, order[k])) \o ExtractAll(f, ns, order, k + 1)

\* Array.prototype.sort((a, b) => a.startLine - b.startLine): a stable sort
RECURSIVE InsertByStartLine(_, _)
InsertByStartLine(sorted, c) ==
    IF sorted = <<>> THEN <<c>>
    ELSE IF sorted[Len(sorted)].startLine <= c.startLine THEN Append(sorted, c)
    ELSE Append(InsertByStartLine(SubSeq(sorted, 1, Len(sorted) - 1), c), sorted[Len(sorted)])

RECURSIVE SortByStartLine(_)
SortByStartLine(cs) ==
    IF cs = <<>> THEN <<>>
    ELSE InsertByStartLine(SortByStartLine(SubSeq(cs, 1, Len(cs) - 1)), cs[Len(cs)])

\* a merge pass that joins only chunks with at most one line between them
MergeTouching(current, next) ==
    current.type = next.type /\ next.startLine <= current.endLine + 1

MergeCondition(current, next) ==
    current.type = next.type /\ next.startLine <= current.endLine + 2

\* a merge that keeps the line range of the wrong ends
MergeInnerEnds(current, next) ==
    [type |-> current.type,
     content |-> current.content \o next.content,
     startLine |-> next.startLine,
     endLine |-> current.endLine,
     name |-> current.name]

\* a merge that takes the name of the latest chunk that has one
MergeLatestName(current, next) ==
    [type |-> current.type,
     content |-> current.content
                 \o (IF next.startLine > current.endLine
                     THEN Newlines(next.startLine - current.endLine) ELSE <<>>)
                 \o next.content,
     startLine |-> current.startLine,
     endLine |-> next.endLine,
     name |-> IF next.name # "" THEN next.name ELSE current.name]

MergeTwo(current, next) ==
    [type |-> current.type,
     content |-> current.content
                 \o (IF next.startLine > current.endLine
                     THEN Newlines(next.startLine - current.endLine) ELSE <<>>)
                 \o next.content,
     startLine |-> current.startLine,
     endLine |-> next.endLine,
     name |-> IF current.name # "" THEN current.name ELSE next.name]

RECURSIVE MergeLoop(_, _, _, _)
MergeLoop(sorted, i, current, merged) ==
    IF i > Len(sorted) THEN Append(merged, current)
    ELSE IF MergeCondition(current, sorted[i])
         THEN MergeLoop(sorted, i + 1, MergeTwo(current, sorted[i]), merged)
         ELSE MergeLoop(sorted, i + 1, sorted[i], Append(merged, current))

_mergeAdjacentChunks(cs) ==
    IF cs = <<>> THEN <<>>
    ELSE LET sorted == SortByStartLine(cs) IN MergeLoop(sorted, 2, sorted[1], <<>>)

\* the chunk parseContent makes of a merged one: the name is copied when
\* there is one
FormatChunk(c) ==
    LET chunk == _createChunk(c.content, c.startLine, c.endLine, c.type)
    IN  IF c.name # "" THEN [x \in DOMAIN chunk \cup {"name"} |->
                                 IF x = "name" THEN c.name ELSE chunk[x]]
        ELSE chunk

RECURSIVE FormatChunks(_)
FormatChunks(cs) ==
    IF cs = <<>> THEN <<>>
    ELSE <<FormatChunk(Head(cs))>> \o FormatChunks(Tail(cs))

\* allFail: parser.parse threw on the content, on the cleaned content and on
\* its first 100 lines
GoParseContent(f, ns, allFail) ==
    IF IsEmptyContent(f) \/ allFail THEN <<>>
    ELSE FormatChunks(_mergeAdjacentChunks(ExtractAll(f, ns, GoTypeOrder, 1)))

(***************************************************************************)
(* JavaScriptParser.                                                       *)
(***************************************************************************)
JsTypeOrder == <<"import", "export", "function", "variable", "class", "comment">>

JsNodeKept(f, node) ==
    LET nodeContent == JoinLines(f, node.startLine, node.endLine, 0)
    IN  ~IsBlank(nodeContent) /\ ByteLength(f, nodeContent) <= maxChunkSize

RECURSIVE _extractNodesByType(_, _, _)
_extractNodesByType(f, ns, t) ==
    IF ns = <<>> THEN <<>>
    ELSE (IF Head(ns).type = t /\ JsNodeKept(f, Head(ns))
          THEN <<_createChunk(JoinLines(f, Head(ns).startLine, Head(ns).endLine, 0),
                              Head(ns).startLine, Head(ns).endLine, t)>>
          ELSE <<>>)
         \o _extractNodesByType(f, Tail(ns), t)

RECURSIVE JsExtractAll(_, _, _)
JsExtractAll(f, ns, k) ==
    IF k > Len(JsTypeOrder) THEN <<>>
    ELSE _extractNodesByType(f, ns, JsTypeOrder[k]) \o JsExtractAll(f, ns, k + 1)

_fallbackLineParsing(f, lpc) == _splitIntoChunks(f, lpc)

JsParseContent(f, ns, lpc, allFail) ==
    IF IsEmptyContent(f) THEN <<>>
    ELSE IF allFail THEN _fallbackLineParsing(f, lpc)
    ELSE LET allChunks == JsExtractAll(f, ns, 1)
         IN  IF allChunks = <<>> THEN _fallbackLineParsing(f, lpc) ELSE allChunks

(***************************************************************************)
(* The cache variables of a specification about something else.            *)
(***************************************************************************)
ConcIdle == calls = <<>> /\ started = 0

PipeIdle ==
    /\ fileList = {}
    /\ chunkCount = <<>>
    /\ cacheStorePromises = {}
    /\ failedStores = {}
    /\ runs = <<>>

TrackerIdle == tracker = <<>> /\ lastCall = <<>>

MerkleIdle ==
    /\ stateFile = <<>>
    /\ currentState = <<>>
    /\ lastState = <<>>
    /\ isInitialized = FALSE
    /\ merkleRet = <<>>

ParseIdle == registry = <<>> /\ selected = <<>> /\ ladder = <<>>

ServiceIdle == service = <<>>

OthersIdle == ConcIdle /\ PipeIdle /\ TrackerIdle /\ MerkleIdle /\ ParseIdle /\ ServiceIdle

CacheIdle ==
    /\ table = {}
    /\ now = 0
    /\ config = <<>>
    /\ ret = [op |-> "none"]
    /\ lastSet = <<>>
    /\ accessed = <<>>

(***************************************************************************)
(* The inputs of the chunkers.  Two families of files are tried: files     *)
(* with AST nodes, whose non-blank lines all have one width (short, or     *)
(* half the chunk cap), and files without AST nodes, whose lines have any  *)
(* of the widths, a line longer than the chunk cap included.               *)
(***************************************************************************)
Files == UNION {[1..n -> LineWidths] : n \in 1..MaxLines}

UniformFiles == {f \in Files : \E w \in {SmallLine, HalfLine} : \A i \in 1..Len(f) : f[i] \in {0, w}}

\* function nodes start in column 0; variable nodes are statements of a body
ColumnOf(t) == IF t = "variable" THEN Indent ELSE 0

\* a node starts and ends at a token: its first and last lines are not blank
NodesOf(f) ==
    {[type |-> t, startLine |-> s, endLine |-> e, col |-> ColumnOf(t)] :
        t \in NodeTypes,
        s \in {i \in 1..Len(f) : f[i] > 0},
        e \in {i \in 1..Len(f) : f[i] > 0}}

\* a tree walk meets a node before the nodes inside it and before the nodes
\* after it; two nodes are nested, apart, or share one line
WalkOrder(ns) ==
    \A k \in 1..Len(ns) : \A j \in (k + 1)..Len(ns) :
        /\ \/ ns[k].startLine < ns[j].startLine
           \/ ns[k].startLine = ns[j].startLine /\ ns[k].col <= ns[j].col
        /\ ns[j].startLine >= ns[k].endLine \/ ns[j].endLine <= ns[k].endLine

NodeLists(f) ==
    {ns \in UNION {[1..n -> {x \in NodesOf(f) : x.startLine <= x.endLine}] : n \in 0..MaxNodes} :
        WalkOrder(ns)}

InitAst ==
    /\ file \in UniformFiles
    /\ nodes \in NodeLists(file)
    /\ linesPerChunk = MaxLinesPerChunk

InitLine ==
    /\ file \in Files
    /\ nodes = <<>>
    /\ linesPerChunk \in 1..MaxLinesPerChunk

InitChunk ==
    /\ InitAst \/ InitLine
    /\ chunks = <<>>
    /\ parser = "none"
    /\ parseThrows = FALSE
    /\ CacheIdle
    /\ OthersIdle

\* a grammar that throws yields no tree, so no nodes
GoParse(allFail) ==
    /\ parser = "none"
    /\ allFail => nodes = <<>>
    /\ chunks' = GoParseContent(file, nodes, allFail)
    /\ parser' = "go"
    /\ parseThrows' = allFail
    /\ UNCHANGED <<file, nodes, linesPerChunk, cacheVars>>

JsParse(allFail) ==
    /\ parser = "none"
    /\ allFail => nodes = <<>>
    /\ chunks' = JsParseContent(file, nodes, linesPerChunk, allFail)
    /\ parser' = "js"
    /\ parseThrows' = allFail
    /\ UNCHANGED <<file, nodes, linesPerChunk, cacheVars>>

LineParse ==
    /\ parser = "none"
    /\ chunks' = BaseParse(file, linesPerChunk)
    /\ parser' = "line"
    /\ parseThrows' = FALSE
    /\ UNCHANGED <<file, nodes, linesPerChunk, cacheVars>>

NextChunk ==
    \/ \E allFail \in BOOLEAN : GoParse(allFail)
    \/ \E allFail \in BOOLEAN : JsParse(allFail)
    \/ LineParse

SpecChunk == InitChunk /\ [][NextChunk /\ UNCHANGED otherVars]_vars

\* files of short lines whose nodes have names or not; the Go parser alone
MergeNames == {"", "a", "b"}

PlainFiles == {f \in Files : \A i \in 1..Len(f) : f[i] = SmallLine}

NamedNodeLists(f) ==
    {[k \in 1..Len(ns) |->
          [type |-> ns[k].type, startLine |-> ns[k].startLine, endLine |-> ns[k].endLine,
           col |-> ns[k].col, name |-> names[k]]] :
        ns \in NodeLists(f), names \in [1..MaxNodes -> MergeNames]}

InitMerge ==
    /\ file \in PlainFiles
    /\ nodes \in NamedNodeLists(file)
    /\ linesPerChunk = MaxLinesPerChunk
    /\ chunks = <<>>
    /\ parser = "none"
    /\ parseThrows = FALSE
    /\ CacheIdle
    /\ OthersIdle

NextMerge == \E allFail \in BOOLEAN : GoParse(allFail)

SpecMerge == InitMerge /\ [][NextMerge /\ UNCHANGED otherVars]_vars

(***************************************************************************)
(* The chunker variables of a specification about something else.          *)
(***************************************************************************)
ChunkIdle ==
    /\ file = <<0>>
    /\ nodes = <<>>
    /\ linesPerChunk = MaxLinesPerChunk
    /\ chunks = <<>>
    /\ parser = "none"
    /\ parseThrows = FALSE

(***************************************************************************)
(* IndexCache over CacheDatabase.                                          *)
(***************************************************************************)
Paths == {"a.go", "b.go"}
Hashes == {"h1", "h2"}
\* a.go is seen with two contents, b.go with one
Pairs == {<<"a.go", "h1">>, <<"a.go", "h2">>, <<"b.go", "h1">>}

NULL == [null |-> TRUE]

ttlHours == config.ttlHours
maxEntries == config.maxEntries
maxSizeBytes == config.maxSizeMB * 1024 * 1024

\* The values passed to set: JSON objects, of which the model keeps the length
\* of the JSON text and of its gzip + base64 form.  A large value takes 45% of
\* the size limit as JSON text.
SmallData == [body |-> "small", jsonLength |-> 512, gzipLength |-> 400]
LargeData == [body |-> "large", jsonLength |-> (MaxSizeMB * 1024 * 1024 * 9) \div 20,
                                gzipLength |-> (MaxSizeMB * 1024 * 1024 * 9) \div 20 - 1024]
DataValues == {SmallData, LargeData}

\* md5 of `${filePath}:${fileHash}`; a file hash is a hex digest, without ':'
\* a key that leaves the content hash out
PathOnlyKey(filePath, fileHash) == <<filePath, ":">>

generateCacheKey(filePath, fileHash) == <<filePath, ":", fileHash>>

\* the serialized text: its first characters, then the value it encodes
serializeData(data) ==
    IF config.enableCompression /\ data.jsonLength > compressionThreshold
    THEN <<"H4sI", data>>
    ELSE <<"{", data>>

\* Buffer.byteLength(serializedData, 'utf8')
SerializedLength(text) ==
    IF text[1] = "H4sI" THEN text[2].gzipLength ELSE text[2].jsonLength

deserializeData(text) ==
    IF config.enableCompression /\ text[1] # "{" /\ text[1] # "["
    THEN (IF text[1] = "H4sI" THEN text[2] ELSE NULL)
    ELSE (IF text[1] = "{" THEN text[2] ELSE NULL)

\* an expiry test with an hour of grace
isExpiredLate(createdAt) == now - createdAt > ttlHours + 1

isExpired(createdAt) == now - createdAt > ttlHours

\* CacheDatabase
getEntry(tbl, cacheKey) ==
    IF \E r \in tbl : r.cache_key = cacheKey
    THEN CHOOSE r \in tbl : r.cache_key = cacheKey
    ELSE NULL

\* an INSERT that replaces nothing
InsertEntry(tbl, entry) == tbl \cup {entry}

\* INSERT OR REPLACE on the primary key cache_key
setEntry(tbl, entry) == {r \in tbl : r.cache_key # entry.cache_key} \cup {entry}

deleteEntry(tbl, cacheKey) == {r \in tbl : r.cache_key # cacheKey}

deleteByFilePath(tbl, filePath) == {r \in tbl : r.file_path # filePath}

\* a DELETE that also takes the rows created at the limit
DeleteNotAfter(tbl, expiredBefore) == {r \in tbl : ~(r.created_at <= expiredBefore)}

deleteExpiredEntries(tbl, expiredBefore) == {r \in tbl : ~(r.created_at < expiredBefore)}

\* a read that leaves last_accessed alone
KeepLastAccess(tbl, cacheKey) == tbl

updateLastAccess(tbl, cacheKey) ==
    {IF r.cache_key = cacheKey THEN [r EXCEPT !.last_accessed = now] ELSE r : r \in tbl}

\* ORDER BY last_accessed DESC LIMIT count
NewestEntries(tbl, count) ==
    {D \in SUBSET tbl :
        /\ Cardinality(D) = (IF count < Cardinality(tbl) THEN count ELSE Cardinality(tbl))
        /\ \A d \in D : \A r \in tbl \ D : d.last_accessed >= r.last_accessed}

\* ORDER BY last_accessed ASC LIMIT count: the sets of rows it may select
OldestEntries(tbl, count) ==
    {D \in SUBSET tbl :
        /\ Cardinality(D) = (IF count < Cardinality(tbl) THEN count ELSE Cardinality(tbl))
        /\ \A d \in D : \A r \in tbl \ D : d.last_accessed <= r.last_accessed}

\* the tables deleteOldestEntries(count) may leave
deleteOldestEntries(tbl, count) == {tbl \ D : D \in OldestEntries(tbl, count)}

RECURSIVE SumSizes(_)
SumSizes(rows) ==
    IF rows = {} THEN 0
    ELSE LET r == CHOOSE x \in rows : TRUE IN r.data_size + SumSizes(rows \ {r})

getStats(tbl) == [entryCount |-> Cardinality(tbl), totalSize |-> SumSizes(tbl)]

\* the while loop of enforceStorageLimits: batches of 100 until 80% is reached
RECURSIVE SizeLoop(_)
SizeLoop(tbl) ==
    IF getStats(tbl).totalSize * 10 <= maxSizeBytes * 8 \/ tbl = {}
    THEN {tbl}
    ELSE UNION {SizeLoop(t) : t \in deleteOldestEntries(tbl, evictionBatch)}

\* the tables enforceStorageLimits may leave
enforceStorageLimits(tbl) ==
    LET stats == getStats(tbl)
        afterCount == IF stats.entryCount > maxEntries
                      THEN deleteOldestEntries(tbl, stats.entryCount - maxEntries)
                      ELSE {tbl}
    IN  IF stats.totalSize > maxSizeBytes
        THEN UNION {SizeLoop(t) : t \in afterCount}
        ELSE afterCount

NewEntry(filePath, fileHash, data) ==
    LET serializedData == serializeData(data)
    IN  [cache_key |-> generateCacheKey(filePath, fileHash),
         file_path |-> filePath, file_hash |-> fileHash,
         data |-> serializedData, data_size |-> SerializedLength(serializedData),
         created_at |-> now, last_accessed |-> now]

\* IndexCache.set: the tables it may leave
SetTables(tbl, filePath, fileHash, data) ==
    enforceStorageLimits(setEntry(tbl, NewEntry(filePath, fileHash, data)))

\* what getEntry found: "miss", "expired" or "hit"
Found(tbl, cacheKey) ==
    LET entry == getEntry(tbl, cacheKey)
    IN  IF entry = NULL THEN "miss"
        ELSE IF isExpired(entry.created_at) THEN "expired" ELSE "hit"

\* IndexCache.get: the table it leaves, and what it returns
GetTable(tbl, cacheKey) ==
    CASE Found(tbl, cacheKey) = "miss" -> tbl
      [] Found(tbl, cacheKey) = "expired" -> deleteEntry(tbl, cacheKey)
      [] OTHER -> updateLastAccess(tbl, cacheKey)

GetValue(tbl, cacheKey) ==
    IF Found(tbl, cacheKey) = "hit"
    THEN deserializeData(getEntry(tbl, cacheKey).data) ELSE NULL

\* IndexCache.has
HasTable(tbl, cacheKey) ==
    IF Found(tbl, cacheKey) = "expired" THEN deleteEntry(tbl, cacheKey) ELSE tbl

HasValue(tbl, cacheKey) == Found(tbl, cacheKey) = "hit"

NoCall == [op |-> "none"]

Configs ==
    [ttlHours : {TtlHours}, maxEntries : {MaxEntries}, maxSizeMB : {MaxSizeMB},
     enableCompression : BOOLEAN]

InitCacheVars ==
    /\ table = {}
    /\ now = 0
    /\ config \in Configs
    /\ ret = NoCall
    /\ lastSet = [k \in Pairs |-> NULL]
    /\ accessed = [k \in Pairs |-> -1]

Tick ==
    /\ now < MaxTime
    /\ now' = now + 1
    /\ UNCHANGED <<table, config, ret, lastSet, accessed>>

Set(p, h, d) ==
    /\ table' \in SetTables(table, p, h, d)
    \* replaced: whether the key had a row before the call
    /\ ret' = [op |-> "set", path |-> p, hash |-> h,
               replaced |-> getEntry(table, generateCacheKey(p, h)) # NULL]
    /\ lastSet' = [lastSet EXCEPT ![<<p, h>>] = d]
    /\ UNCHANGED <<now, config, accessed>>

Get(p, h) ==
    /\ table' = GetTable(table, generateCacheKey(p, h))
    /\ ret' = [op |-> "get", path |-> p, hash |-> h,
               found |-> Found(table, generateCacheKey(p, h)),
               value |-> GetValue(table, generateCacheKey(p, h))]
    /\ UNCHANGED <<now, config, lastSet, accessed>>

Has(p, h) ==
    /\ table' = HasTable(table, generateCacheKey(p, h))
    /\ ret' = [op |-> "has", path |-> p, hash |-> h,
               found |-> Found(table, generateCacheKey(p, h)),
               value |-> HasValue(table, generateCacheKey(p, h))]
    /\ UNCHANGED <<now, config, lastSet, accessed>>

InvalidateFile(p) ==
    /\ table' = deleteByFilePath(table, p)
    /\ ret' = [op |-> "invalidateFile", path |-> p]
    /\ UNCHANGED <<now, config, lastSet, accessed>>

CleanExpiredEntries ==
    /\ table' = deleteExpiredEntries(table, now - ttlHours)
    /\ ret' = [op |-> "cleanExpiredEntries",
               deletedCount |-> Cardinality(table \ deleteExpiredEntries(table, now - ttlHours))]
    /\ UNCHANGED <<now, config, lastSet, accessed>>

EnforceStorageLimits ==
    /\ table' \in enforceStorageLimits(table)
    /\ ret' = [op |-> "enforceStorageLimits"]
    /\ UNCHANGED <<now, config, lastSet, accessed>>

InitCache == ChunkIdle /\ OthersIdle /\ InitCacheVars

NextCache ==
    \/ Tick
    \/ \E k \in Pairs, d \in DataValues : Set(k[1], k[2], d)
    \/ \E k \in Pairs : Get(k[1], k[2])
    \/ \E k \in Pairs : Has(k[1], k[2])
    \/ \E p \in Paths : InvalidateFile(p)
    \/ CleanExpiredEntries
    \/ EnforceStorageLimits

SpecCache == InitCache /\ [][NextCache /\ UNCHANGED <<chunkVars, otherVars>>]_vars

(***************************************************************************)
(* The LRU scenario: sets and get hits on distinct (path, hash) pairs, the *)
(* clock advancing after every call, small values, and a ttlHours that no  *)
(* entry outlives.                                                         *)
(***************************************************************************)
LruConfigs ==
    [ttlHours : {MaxTime + 1}, maxEntries : {MaxEntries}, maxSizeMB : {MaxSizeMB},
     enableCompression : BOOLEAN]

InitLru ==
    /\ ChunkIdle
    /\ OthersIdle
    /\ table = {}
    /\ now = 0
    /\ config \in LruConfigs
    /\ ret = NoCall
    /\ lastSet = [k \in Pairs |-> NULL]
    /\ accessed = [k \in Pairs |-> -1]

LruSet(p, h) ==
    /\ now <= MaxTime
    /\ table' \in SetTables(table, p, h, SmallData)
    /\ ret' = [op |-> "set", path |-> p, hash |-> h]
    /\ lastSet' = [lastSet EXCEPT ![<<p, h>>] = SmallData]
    /\ accessed' = [accessed EXCEPT ![<<p, h>>] = now]
    /\ now' = now + 1
    /\ UNCHANGED config

LruGet(p, h) ==
    /\ now <= MaxTime
    /\ table' = GetTable(table, generateCacheKey(p, h))
    /\ ret' = [op |-> "get", path |-> p, hash |-> h,
               found |-> Found(table, generateCacheKey(p, h)),
               value |-> GetValue(table, generateCacheKey(p, h))]
    /\ accessed' = IF Found(table, generateCacheKey(p, h)) = "hit"
                   THEN [accessed EXCEPT ![<<p, h>>] = now] ELSE accessed
    /\ now' = now + 1
    /\ UNCHANGED <<config, lastSet>>

NextLru ==
    \/ \E k \in Pairs : LruSet(k[1], k[2])
    \/ \E k \in Pairs : LruGet(k[1], k[2])

SpecLru == InitLru /\ [][NextLru /\ UNCHANGED <<chunkVars, otherVars>>]_vars

(***************************************************************************)
(* CachedAstParser over IndexCache.  The content of a file is known by its  *)
(* hash; the clock stands still and no entry expires.                      *)
(***************************************************************************)
\* `${filePath}_${fileHash}`, what parse passes to the cache as the path
ParseCacheKey(filePath, fileHash) == filePath \o "_" \o fileHash

\* get on a miss or a hit, then set on a miss: the tables the call may leave
CachedParseTables(tbl, cachePath, fileHash) ==
    LET cacheKey == generateCacheKey(cachePath, fileHash)
    IN  IF GetValue(tbl, cacheKey) # NULL
        THEN {GetTable(tbl, cacheKey)}
        ELSE SetTables(GetTable(tbl, cacheKey), cachePath, fileHash, SmallData)

InitCachedParser == InitLru

\* CachedAstParser.parse(filePath, content)
Parse(filePath, fileHash) ==
    LET cachePath == ParseCacheKey(filePath, fileHash)
    IN  /\ table' \in CachedParseTables(table, cachePath, fileHash)
        /\ ret' = [op |-> "parse", path |-> filePath, hash |-> fileHash,
                   parsed |-> GetValue(table, generateCacheKey(cachePath, fileHash)) = NULL]
        /\ UNCHANGED <<now, config, lastSet, accessed>>

\* CachedAstParser.parseFile(code, filename)
ParseFile(filename, fileHash) ==
    /\ table' \in CachedParseTables(table, filename, fileHash)
    /\ ret' = [op |-> "parseFile", path |-> filename, hash |-> fileHash,
               parsed |-> GetValue(table, generateCacheKey(filename, fileHash)) = NULL]
    /\ UNCHANGED <<now, config, lastSet, accessed>>

\* CachedAstParser.invalidateCache(filePath)
InvalidateCache(filePath) ==
    /\ table' = deleteByFilePath(table, filePath)
    /\ ret' = [op |-> "invalidateCache", path |-> filePath]
    /\ UNCHANGED <<now, config, lastSet, accessed>>

NextCachedParser ==
    \/ \E k \in Pairs : Parse(k[1], k[2])
    \/ \E k \in Pairs : ParseFile(k[1], k[2])
    \/ \E filePath \in Paths : InvalidateCache(filePath)

SpecCachedParser ==
    InitCachedParser /\ [][NextCachedParser /\ UNCHANGED <<chunkVars, otherVars>>]_vars

(***************************************************************************)
(* IndexCache under concurrent callers.  A call runs to its next awaited   *)
(* database call in one step; other calls and the clock run in between.    *)
(***************************************************************************)
Calls == 1..MaxCalls

IdleCall == [op |-> "idle", pc |-> "idle"]

KeyOf(call) == generateCacheKey(call.path, call.hash)

InitConc ==
    /\ ChunkIdle
    /\ PipeIdle
    /\ TrackerIdle
    /\ MerkleIdle
    /\ ParseIdle
    /\ ServiceIdle
    /\ InitCacheVars
    /\ calls = [c \in Calls |-> IdleCall]
    /\ started = 0

\* get and has up to `await this.database.getEntry(cacheKey)`
CallGet(c, p, h) ==
    /\ calls[c].pc = "idle"
    /\ started < MaxStarted
    /\ started' = started + 1
    /\ calls' = [calls EXCEPT ![c] = [op |-> "get", pc |-> "getEntry", path |-> p, hash |-> h]]
    /\ UNCHANGED cacheVars

CallHas(c, p, h) ==
    /\ calls[c].pc = "idle"
    /\ started < MaxStarted
    /\ started' = started + 1
    /\ calls' = [calls EXCEPT ![c] = [op |-> "has", pc |-> "getEntry", path |-> p, hash |-> h]]
    /\ UNCHANGED cacheVars

\* set up to `await this.database.setEntry(entry)`
CallSet(c, p, h, d) ==
    /\ calls[c].pc = "idle"
    /\ started < MaxStarted
    /\ started' = started + 1
    /\ calls' = [calls EXCEPT ![c] = [op |-> "set", pc |-> "setEntry", path |-> p, hash |-> h,
                                      entry |-> NewEntry(p, h, d)]]
    /\ UNCHANGED cacheVars

\* getEntry resolves: miss, expired (on to deleteEntry) or hit
GetEntryStep(c) ==
    LET call == calls[c]
        entry == getEntry(table, KeyOf(call))
    IN  /\ call.pc = "getEntry"
        /\ calls' = [calls EXCEPT ![c] =
               IF entry = NULL THEN IdleCall
               ELSE IF isExpired(entry.created_at)
                    THEN [op |-> call.op, pc |-> "deleteEntry", path |-> call.path,
                          hash |-> call.hash, entry |-> entry]
               ELSE IF call.op = "get"
                    THEN [op |-> call.op, pc |-> "updateLastAccess", path |-> call.path,
                          hash |-> call.hash, entry |-> entry]
               ELSE IdleCall]
        /\ UNCHANGED <<cacheVars, started>>

DeleteEntryStep(c) ==
    /\ calls[c].pc = "deleteEntry"
    /\ table' = deleteEntry(table, KeyOf(calls[c]))
    /\ calls' = [calls EXCEPT ![c] = IdleCall]
    /\ UNCHANGED <<now, config, ret, lastSet, accessed, started>>

UpdateLastAccessStep(c) ==
    /\ calls[c].pc = "updateLastAccess"
    /\ table' = updateLastAccess(table, KeyOf(calls[c]))
    /\ calls' = [calls EXCEPT ![c] = IdleCall]
    /\ UNCHANGED <<now, config, ret, lastSet, accessed, started>>

SetEntryStep(c) ==
    /\ calls[c].pc = "setEntry"
    /\ table' = setEntry(table, calls[c].entry)
    /\ calls' = [calls EXCEPT ![c] = [op |-> "set", pc |-> "getStats", path |-> calls[c].path,
                                      hash |-> calls[c].hash]]
    /\ UNCHANGED <<now, config, ret, lastSet, accessed, started>>

\* enforceStorageLimits: the first getStats resolves
GetStatsStep(c) ==
    LET call == calls[c]
        stats == getStats(table)
    IN  /\ call.pc = "getStats"
        /\ calls' = [calls EXCEPT ![c] =
               IF stats.entryCount > maxEntries
               THEN [op |-> "set", pc |-> "deleteOldestEntries", path |-> call.path,
                     hash |-> call.hash, deleteCount |-> stats.entryCount - maxEntries,
                     overSize |-> stats.totalSize > maxSizeBytes]
               ELSE IF stats.totalSize > maxSizeBytes
               THEN [op |-> "set", pc |-> "currentStats", path |-> call.path, hash |-> call.hash]
               ELSE IdleCall]
        /\ UNCHANGED <<cacheVars, started>>

DeleteOldestStep(c) ==
    LET call == calls[c]
    IN  /\ call.pc = "deleteOldestEntries"
        /\ table' \in deleteOldestEntries(table, call.deleteCount)
        /\ calls' = [calls EXCEPT ![c] =
               IF call.overSize
               THEN [op |-> "set", pc |-> "currentStats", path |-> call.path, hash |-> call.hash]
               ELSE IdleCall]
        /\ UNCHANGED <<now, config, ret, lastSet, accessed, started>>

\* the size loop: getStats resolves, then a batch of the oldest rows goes
CurrentStatsStep(c) ==
    LET call == calls[c]
    IN  /\ call.pc = "currentStats"
        /\ calls' = [calls EXCEPT ![c] =
               IF getStats(table).totalSize * 10 <= maxSizeBytes * 8
               THEN IdleCall ELSE [call EXCEPT !.pc = "deleteBatch"]]
        /\ UNCHANGED <<cacheVars, started>>

DeleteBatchStep(c) ==
    LET call == calls[c]
    IN  /\ call.pc = "deleteBatch"
        /\ table' \in deleteOldestEntries(table, evictionBatch)
        /\ calls' = [calls EXCEPT ![c] =
               IF table = {} THEN IdleCall ELSE [call EXCEPT !.pc = "currentStats"]]
        /\ UNCHANGED <<now, config, ret, lastSet, accessed, started>>

ConcTick == Tick /\ UNCHANGED concVars

NextConc ==
    \/ ConcTick
    \/ \E c \in Calls :
          \/ \E k \in Pairs : CallGet(c, k[1], k[2])
          \/ \E k \in Pairs : CallHas(c, k[1], k[2])
          \/ \E k \in Pairs : \E d \in DataValues : CallSet(c, k[1], k[2], d)
          \/ GetEntryStep(c)
          \/ DeleteEntryStep(c)
          \/ UpdateLastAccessStep(c)
          \/ SetEntryStep(c)
          \/ GetStatsStep(c)
          \/ DeleteOldestStep(c)
          \/ CurrentStatsStep(c)
          \/ DeleteBatchStep(c)

SpecConc == InitConc /\ [][NextConc /\ UNCHANGED <<chunkVars, pipeVars, trackerVars, merkleVars, parseVars, serviceVars>>]_vars

(***************************************************************************)
(* ProgressTracker.  A tracker is a record of its fields; a chunk id is     *)
(* [id, part]: part 0 is the id itself, part n > 0 is `<id>_part_<n>`.     *)
(***************************************************************************)
Statuses == {"pending", "processing", "completed", "failed"}

NewTracker ==
    [chunks |-> <<>>, fileProgress |-> <<>>, fileStatus |-> <<>>,
     totalFiles |-> 0, completedFiles |-> 0, processingFiles |-> 0, failedFiles |-> 0]

NewFileStats == [total |-> 0, pending |-> 0, processing |-> 0, completed |-> 0, failed |-> 0]

\* map.set(key, value)
MapSet(map, key, value) == (key :> value) @@ map

\* a move that forgets to decrement the old status
AddCount(fileStats, oldStatus, status) == [fileStats EXCEPT ![status] = @ + 1]

\* fileStats[oldStatus]--; fileStats[status]++
MoveCount(fileStats, oldStatus, status) ==
    LET less == [fileStats EXCEPT ![oldStatus] = @ - 1]
    IN  [less EXCEPT ![status] = @ + 1]

registerChunk(tr, id, filePath) ==
    IF id \in DOMAIN tr.chunks THEN tr
    ELSE LET fileStats == IF filePath \in DOMAIN tr.fileProgress
                          THEN tr.fileProgress[filePath] ELSE NewFileStats
         IN  [tr EXCEPT
                 !.chunks = MapSet(@, id, [filePath |-> filePath, status |-> "pending",
                                           splitChunks |-> <<>>]),
                 !.fileProgress = MapSet(@, filePath,
                                         [fileStats EXCEPT !.total = @ + 1, !.pending = @ + 1])]

registerFile(tr, filePath) ==
    IF filePath \in DOMAIN tr.fileStatus THEN tr
    ELSE [tr EXCEPT !.fileStatus = MapSet(@, filePath, "pending"), !.totalFiles = @ + 1]

RECURSIVE registerFiles(_, _)
registerFiles(tr, files) ==
    IF files = {} THEN tr
    ELSE LET f == CHOOSE x \in files : TRUE
         IN  registerFiles(registerFile(tr, f), files \ {f})

Max0(n) == IF n < 0 THEN 0 ELSE n

\* a status update that is dropped
KeepFileStatus(tr, filePath, status) == tr

updateFileStatus(tr, filePath, status) ==
    LET oldStatus == IF filePath \in DOMAIN tr.fileStatus THEN tr.fileStatus[filePath] ELSE "none"
        less == [tr EXCEPT
                    !.processingFiles = IF oldStatus = "processing" THEN Max0(@ - 1) ELSE @,
                    !.completedFiles = IF oldStatus = "completed" THEN Max0(@ - 1) ELSE @,
                    !.failedFiles = IF oldStatus = "failed" THEN Max0(@ - 1) ELSE @]
    IN  [less EXCEPT
            !.fileStatus = MapSet(@, filePath, status),
            !.processingFiles = IF status = "processing" THEN @ + 1 ELSE @,
            !.completedFiles = IF status = "completed" THEN @ + 1 ELSE @,
            !.failedFiles = IF status = "failed" THEN @ + 1 ELSE @]

\* the chunks of a file, and how many of them have a status
ChunksOf(tr, filePath) == {id \in DOMAIN tr.chunks : tr.chunks[id].filePath = filePath}

CountOf(tr, filePath, status) ==
    Cardinality({id \in ChunksOf(tr, filePath) : tr.chunks[id].status = status})

\* a rule that fails a file as soon as a chunk failed and none is processing
FailEarlyStatus(tr, filePath) ==
    IF CountOf(tr, filePath, "processing") > 0 THEN "processing"
    ELSE IF CountOf(tr, filePath, "completed") = Cardinality(ChunksOf(tr, filePath))
    THEN "completed"
    ELSE IF CountOf(tr, filePath, "failed") > 0 THEN "failed"
    ELSE "pending"

\* the status _updateFileStatusByChunks derives for a file that has chunks
NewFileStatus(tr, filePath) ==
    LET total == Cardinality(ChunksOf(tr, filePath))
        completed == CountOf(tr, filePath, "completed")
        failed == CountOf(tr, filePath, "failed")
    IN  IF CountOf(tr, filePath, "processing") > 0 THEN "processing"
        ELSE IF completed = total THEN "completed"
        ELSE IF failed > 0 /\ completed + failed = total THEN "failed"
        ELSE "pending"

RECURSIVE UpdateEachFile(_, _)
UpdateEachFile(tr, files) ==
    IF files = {} THEN tr
    ELSE LET f == CHOOSE x \in files : TRUE
             currentStatus == IF f \in DOMAIN tr.fileStatus THEN tr.fileStatus[f] ELSE "none"
         IN  UpdateEachFile(IF currentStatus # NewFileStatus(tr, f)
                            THEN updateFileStatus(tr, f, NewFileStatus(tr, f)) ELSE tr,
                            files \ {f})

_updateFileStatusByChunks(tr) ==
    UpdateEachFile(tr, {tr.chunks[id].filePath : id \in DOMAIN tr.chunks})

\* a chunk takes a status: its file's counts move, the file statuses follow
SetChunkStatus(tr, id, status) ==
    LET chunk == tr.chunks[id]
        moved == [tr EXCEPT
                     !.chunks[id].status = status,
                     !.fileProgress[chunk.filePath] = MoveCount(@, chunk.status, status)]
    IN  _updateFileStatusByChunks(moved)

_updateSplitChunkStatus(tr, originalChunkId, splitChunkId, status) ==
    LET originalChunk == tr.chunks[originalChunkId]
        splitChunks == MapSet(originalChunk.splitChunks, splitChunkId, status)
        totalSplitChunks == Cardinality(DOMAIN splitChunks)
        completedCount == Cardinality({k \in DOMAIN splitChunks : splitChunks[k] = "completed"})
        failedCount == Cardinality({k \in DOMAIN splitChunks : splitChunks[k] = "failed"})
        newOriginalStatus ==
            IF status = "processing" /\ originalChunk.status = "pending" THEN "processing"
            ELSE IF completedCount = totalSplitChunks THEN "completed"
            ELSE IF failedCount > 0 /\ completedCount + failedCount = totalSplitChunks
                 THEN "failed"
            ELSE originalChunk.status
        recorded == [tr EXCEPT !.chunks[originalChunkId].splitChunks = splitChunks]
    IN  IF newOriginalStatus # originalChunk.status
        THEN SetChunkStatus(recorded, originalChunkId, newOriginalStatus)
        ELSE recorded

updateChunkStatus(tr, chunkId, status) ==
    IF chunkId.part = 0
    THEN (IF chunkId.id \in DOMAIN tr.chunks THEN SetChunkStatus(tr, chunkId.id, status) ELSE tr)
    ELSE (IF chunkId.id \in DOMAIN tr.chunks
          THEN _updateSplitChunkStatus(tr, chunkId.id, chunkId.part, status) ELSE tr)

\* whether updateChunkStatus reaches _updateFileStatusByChunks
Recomputes(tr, chunkId, status) ==
    /\ chunkId.id \in DOMAIN tr.chunks
    /\ chunkId.part > 0 =>
           updateChunkStatus(tr, chunkId, status).chunks[chunkId.id].status
               # tr.chunks[chunkId.id].status

getFileProgress(tr) ==
    [totalFiles |-> tr.totalFiles, completedFiles |-> tr.completedFiles,
     processingFiles |-> tr.processingFiles, failedFiles |-> tr.failedFiles,
     pendingFiles |-> tr.totalFiles - tr.completedFiles - tr.processingFiles - tr.failedFiles,
     \* the percentage as the fraction completedFiles * 100 / totalFiles
     progressPercentage |-> IF tr.totalFiles > 0
                            THEN [num |-> tr.completedFiles * 100, den |-> tr.totalFiles]
                            ELSE [num |-> 0, den |-> 1]]

ChunkNumbers == 1..MaxChunkIds

\* the file a chunk is registered with: b.go stays a file without chunks
FileOfChunk(id) == "a.go"

\* the first chunk is the one that is split into parts
TrackerChunkIds ==
    {[id |-> n, part |-> 0] : n \in ChunkNumbers} \cup {[id |-> 1, part |-> k] : k \in 1..MaxParts}

InitTracker ==
    /\ ChunkIdle
    /\ CacheIdle
    /\ ConcIdle
    /\ PipeIdle
    /\ MerkleIdle
    /\ ParseIdle
    /\ ServiceIdle
    /\ tracker = NewTracker
    /\ lastCall = [op |-> "constructor", recomputed |-> FALSE]

RegisterFile(filePath) ==
    /\ tracker' = registerFile(tracker, filePath)
    /\ lastCall' = [op |-> "registerFile", recomputed |-> FALSE]

RegisterChunk(id) ==
    /\ tracker' = registerChunk(tracker, id, FileOfChunk(id))
    /\ lastCall' = [op |-> "registerChunk", recomputed |-> FALSE]

UpdateFileStatus(filePath, status) ==
    /\ tracker' = updateFileStatus(tracker, filePath, status)
    /\ lastCall' = [op |-> "updateFileStatus", recomputed |-> FALSE]

UpdateChunkStatus(chunkId, status) ==
    /\ tracker' = updateChunkStatus(tracker, chunkId, status)
    /\ lastCall' = [op |-> IF chunkId.part = 0 THEN "updateChunkStatus" ELSE "updateSplitChunk",
                    recomputed |-> Recomputes(tracker, chunkId, status)]

NextTracker ==
    \/ \E filePath \in Paths : RegisterFile(filePath)
    \/ \E id \in ChunkNumbers : RegisterChunk(id)
    \/ \E filePath \in Paths : \E status \in Statuses : UpdateFileStatus(filePath, status)
    \/ \E chunkId \in TrackerChunkIds : \E status \in Statuses : UpdateChunkStatus(chunkId, status)

SpecTracker ==
    InitTracker /\ [][NextTracker /\ UNCHANGED <<chunkVars, cacheVars, concVars, pipeVars, merkleVars, parseVars, serviceVars>>]_vars

\* a tracker whose split chunk hears of its parts only
NextSplit ==
    \/ \E filePath \in Paths : RegisterFile(filePath)
    \/ \E id \in ChunkNumbers : RegisterChunk(id)
    \/ \E k \in 1..MaxParts : \E status \in Statuses :
           UpdateChunkStatus([id |-> 1, part |-> k], status)

SpecSplit ==
    InitTracker /\ [][NextSplit /\ UNCHANGED <<chunkVars, cacheVars, concVars, pipeVars, merkleVars, parseVars, serviceVars>>]_vars

(***************************************************************************)
(* CodeChunker.processWorkspace, run after run on one workspace.  The      *)
(* clock stands still, so nothing expires between runs.                    *)
(***************************************************************************)
\* fileHashes[filePath] of a file that does not change
FileHash(filePath) == "h1"

\* cacheData: { chunks: fileChunks, metadata }
CacheData(fileChunks) ==
    [chunks |-> fileChunks, jsonLength |-> SmallData.jsonLength,
     gzipLength |-> SmallData.gzipLength]

\* IndexCache.batchCheck: has(file.path, file.hash) for every file in turn
RECURSIVE batchCheck(_, _, _)
batchCheck(tbl, files, results) ==
    IF files = {} THEN [table |-> tbl, cached |-> results.cached, uncached |-> results.uncached]
    ELSE LET f == CHOOSE x \in files : TRUE
             cacheKey == generateCacheKey(f, FileHash(f))
         IN  batchCheck(HasTable(tbl, cacheKey), files \ {f},
                        IF HasValue(tbl, cacheKey)
                        THEN [results EXCEPT !.cached = @ \cup {f}]
                        ELSE [results EXCEPT !.uncached = @ \cup {f}])

\* the loop over cachedFiles: get every file, count the chunks it holds
RECURSIVE LoadCached(_, _, _)
LoadCached(tbl, cachedFiles, cachedChunks) ==
    IF cachedFiles = {} THEN [table |-> tbl, cachedChunks |-> cachedChunks]
    ELSE LET f == CHOOSE x \in cachedFiles : TRUE
             cacheKey == generateCacheKey(f, FileHash(f))
             cached == GetValue(tbl, cacheKey)
         IN  LoadCached(GetTable(tbl, cacheKey), cachedFiles \ {f},
                        cachedChunks + (IF cached # NULL THEN cached.chunks ELSE 0))

\* updateFileStatus(filePath, 'completed') for every file of a list
RECURSIVE MarkCompleted(_, _)
MarkCompleted(tr, files) ==
    IF files = {} THEN tr
    ELSE LET f == CHOOSE x \in files : TRUE
         IN  MarkCompleted(updateFileStatus(tr, f, "completed"), files \ {f})

\* registerChunk and updateChunkStatus(chunkId, 'completed') for the first
\* n chunks cached for a file; a cached chunk carries the path of its file
RECURSIVE RegisterCachedChunks(_, _, _)
RegisterCachedChunks(tr, f, n) ==
    IF n = 0 THEN tr
    ELSE LET before == RegisterCachedChunks(tr, f, n - 1)
             registered == registerChunk(before, <<f, n>>, f)
         IN  updateChunkStatus(registered, [id |-> <<f, n>>, part |-> 0], "completed")

\* the tracker side of the loop over cachedFiles when nothing is left to
\* process; a get that fails or finds nothing registers no chunk
RECURSIVE RegisterCached(_, _, _, _)
RegisterCached(tr, tbl, cachedFiles, getFails) ==
    IF cachedFiles = {} THEN tr
    ELSE LET f == CHOOSE x \in cachedFiles : TRUE
             cached == IF getFails THEN NULL
                       ELSE GetValue(tbl, generateCacheKey(f, FileHash(f)))
         IN  RegisterCached(IF cached # NULL THEN RegisterCachedChunks(tr, f, cached.chunks)
                            ELSE tr,
                            tbl, cachedFiles \ {f}, getFails)

\* the chunks of a processed file in the tracker when sendChunks has
\* returned: all registered, the first `accepted` of them completed and the
\* others failed by the sender
RECURSIVE TrackFileChunks(_, _, _, _)
TrackFileChunks(tr, f, n, accepted) ==
    IF n = 0 THEN tr
    ELSE LET before == TrackFileChunks(tr, f, n - 1, accepted)
             registered == registerChunk(before, <<f, n>>, f)
         IN  updateChunkStatus(registered, [id |-> <<f, n>>, part |-> 0],
                               IF n <= accepted THEN "completed" ELSE "failed")

\* the same for every processed file; the processed chunks are sent first
RECURSIVE sendChunks(_, _, _)
sendChunks(tr, files, accepted) ==
    IF files = {} THEN tr
    ELSE LET f == CHOOSE x \in files : TRUE
         IN  sendChunks(TrackFileChunks(tr, f, chunkCount[f], accepted), files \ {f},
                        Max0(accepted - chunkCount[f]))

\* processedChunks.length: what the dispatcher returns for filesToProcess
RECURSIVE ProcessedChunks(_)
ProcessedChunks(filesToProcess) ==
    IF filesToProcess = {} THEN 0
    ELSE LET f == CHOOSE x \in filesToProcess : TRUE
         IN  chunkCount[f] + ProcessedChunks(filesToProcess \ {f})

PipeConfigs == LruConfigs

InitPipe ==
    /\ ChunkIdle
    /\ ConcIdle
    /\ TrackerIdle
    /\ MerkleIdle
    /\ ParseIdle
    /\ ServiceIdle
    /\ table = {}
    /\ now = 0
    /\ config \in PipeConfigs
    /\ ret = NoCall
    /\ lastSet = <<>>
    /\ accessed = <<>>
    /\ fileList \in SUBSET Paths
    /\ chunkCount \in [Paths -> 0..MaxChunkCount]
    /\ cacheStorePromises = {}
    /\ failedStores = {}
    /\ runs = <<>>

\* the database call that fails during a run, if any
CacheErrors == {"none", "initialize", "has", "get"}

\* one call of processWorkspace: the cache database fails in one of its
\* calls or not, the dispatcher throws or not, and the sink accepts
\* `accepted` of the chunks sent
ProcessWorkspace(cacheError, dispatcherCrash, accepted) ==
    LET cacheStatus == batchCheck(table, fileList, [cached |-> {}, uncached |-> {}])
        filesToProcess == cacheStatus.uncached
        cachedFiles == cacheStatus.cached
        processedChunks == ProcessedChunks(filesToProcess)
        \* get catches the error of the database and returns null
        loaded == IF cacheError = "get"
                  THEN [table |-> cacheStatus.table, cachedChunks |-> 0]
                  ELSE LoadCached(cacheStatus.table, cachedFiles, 0)
        sent == processedChunks + loaded.cachedChunks
        run == [cached |-> cachedFiles, uncached |-> filesToProcess,
                pendingStores |-> cacheStorePromises, cacheError |-> cacheError,
                cachedChunks |-> loaded.cachedChunks]
        \* new ProgressTracker(), registerFiles(fileList), cached files completed
        registered == MarkCompleted(registerFiles(NewTracker, fileList), cachedFiles)
    IN  /\ Len(runs) < MaxRuns
        /\ IF cacheError \in {"initialize", "has"}
           \* cacheSystem.initialize() and batchCheck are awaited bare: the
           \* rejection reaches the catch block, which rethrows it
           THEN /\ ~dispatcherCrash
                /\ accepted = 0
                /\ (cacheError = "has" => fileList # {})
                /\ runs' = Append(runs, [result |-> "thrown", dispatched |-> {},
                                         crashed |-> FALSE, accepted |-> 0,
                                         cached |-> {}, uncached |-> fileList,
                                         pendingStores |-> cacheStorePromises,
                                         cacheError |-> cacheError,
                                         cachedChunks |-> 0])
                \* initialize fails before the tracker is replaced
                /\ tracker' = (IF cacheError = "initialize" THEN tracker ELSE NewTracker)
                /\ UNCHANGED <<table, cacheStorePromises>>
           ELSE IF filesToProcess = {}
           THEN /\ ~dispatcherCrash
                /\ accepted = 0
                /\ table' = loaded.table
                /\ tracker' = RegisterCached(registered, cacheStatus.table, cachedFiles,
                                             cacheError = "get")
                /\ runs' = Append(runs, [result |-> "true", dispatched |-> {},
                                         crashed |-> FALSE, accepted |-> 0] @@ run)
                /\ UNCHANGED cacheStorePromises
           ELSE IF dispatcherCrash
           THEN /\ accepted = 0
                /\ cacheError = "none"
                /\ table' = cacheStatus.table
                /\ tracker' = registered
                /\ runs' = Append(runs, [result |-> "thrown", dispatched |-> filesToProcess,
                                         crashed |-> TRUE, accepted |-> 0] @@ run)
                /\ UNCHANGED cacheStorePromises
           ELSE /\ accepted <= sent
                /\ table' = loaded.table
                /\ cacheStorePromises' = cacheStorePromises \cup
                       (IF processedChunks > 0
                        THEN {f \in filesToProcess : chunkCount[f] > 0} ELSE {})
                \* the files just processed are marked completed at the end
                /\ tracker' = MarkCompleted(sendChunks(registered, filesToProcess, accepted),
                                            filesToProcess)
                /\ runs' = Append(runs, [result |-> "true", dispatched |-> filesToProcess,
                                         crashed |-> FALSE, accepted |-> accepted] @@ run)
        /\ (cacheError = "get" => cachedFiles # {})
        /\ UNCHANGED <<now, config, ret, lastSet, accessed, fileList, chunkCount, failedStores>>
        /\ UNCHANGED lastCall

\* one of the cache stores that processWorkspace started and did not await;
\* set catches the error of the database, and the row is not written
CacheStore(f, setFails) ==
    /\ f \in cacheStorePromises
    /\ table' \in (IF setFails THEN {table}
                   ELSE SetTables(table, f, FileHash(f), CacheData(chunkCount[f])))
    /\ cacheStorePromises' = cacheStorePromises \ {f}
    /\ failedStores' = (IF setFails THEN failedStores \cup {f} ELSE failedStores)
    /\ UNCHANGED <<now, config, ret, lastSet, accessed, fileList, chunkCount, runs>>
    /\ UNCHANGED trackerVars

NextPipe ==
    \/ \E cacheError \in CacheErrors : \E dispatcherCrash \in BOOLEAN :
           \E accepted \in 0..(2 * MaxChunkCount) :
               ProcessWorkspace(cacheError, dispatcherCrash, accepted)
    \/ \E f \in Paths : \E setFails \in BOOLEAN : CacheStore(f, setFails)

SpecPipe == InitPipe /\ [][NextPipe /\ UNCHANGED <<chunkVars, concVars, merkleVars, parseVars, serviceVars>>]_vars

(***************************************************************************)
(* MerkleTreeManager.  A fileHashMap is a function from paths to file      *)
(* infos; the state file holds text, gzipped and base64-encoded or plain.  *)
(* The root hash is what MerkleTree.buildTree returns, an input here.      *)
(***************************************************************************)
MerklePaths == {"a.go", "b.go", "constructor"}

\* the order of Object.entries and Object.keys
PathOrder == <<"a.go", "b.go", "constructor">>

\* the property names a plain object inherits from Object.prototype
ObjectPrototypeNames == {"constructor"}

RootHashes == {"r1", "r2"}

FileHashMaps ==
    UNION {[S -> [hash : Hashes]] : S \in SUBSET MerklePaths}

Undefined == [undefined |-> TRUE]

\* the value of Object.prototype.constructor and its like
InheritedValue == [inherited |-> TRUE]

\* map[key] on a plain object: own property, inherited property or undefined
PropertyOf(map, key) ==
    IF key \in DOMAIN map THEN map[key]
    ELSE IF key \in ObjectPrototypeNames THEN InheritedValue
    ELSE Undefined

\* a hash that is undefined
NoHash == "undefined"

\* value.hash
HashOf(value) == IF "hash" \in DOMAIN value THEN value.hash ELSE NoHash

\* Object.entries(map), as the paths
Entries(map) == SelectSeq(PathOrder, LAMBDA filePath : filePath \in DOMAIN map)

MerkleState(rootHash, fileHashMap, version) ==
    [rootHash |-> rootHash, fileHashMap |-> fileHashMap, version |-> version]

\* the first loop of compareFileMaps
RECURSIVE AddedAndModified(_, _, _)
AddedAndModified(oldMap, newMap, paths) ==
    IF paths = <<>> THEN <<>>
    ELSE LET filePath == Head(paths)
             fileInfo == newMap[filePath]
             oldFileInfo == PropertyOf(oldMap, filePath)
             pushed == IF oldFileInfo = Undefined
                       THEN <<[path |-> filePath, changeType |-> "added",
                               oldHash |-> NoHash, newHash |-> fileInfo.hash]>>
                       ELSE IF HashOf(oldFileInfo) # fileInfo.hash
                       THEN <<[path |-> filePath, changeType |-> "modified",
                               oldHash |-> HashOf(oldFileInfo), newHash |-> fileInfo.hash]>>
                       ELSE <<>>
         IN  pushed \o AddedAndModified(oldMap, newMap, Tail(paths))

\* the second loop of compareFileMaps
RECURSIVE Deleted(_, _, _)
Deleted(oldMap, newMap, paths) ==
    IF paths = <<>> THEN <<>>
    ELSE LET filePath == Head(paths)
             pushed == IF PropertyOf(newMap, filePath) = Undefined
                       THEN <<[path |-> filePath, changeType |-> "deleted",
                               oldHash |-> oldMap[filePath].hash, newHash |-> NoHash]>>
                       ELSE <<>>
         IN  pushed \o Deleted(oldMap, newMap, Tail(paths))

CountType(changedFiles, changeType) ==
    Len(SelectSeq(changedFiles, LAMBDA c : c.changeType = changeType))

compareFileMaps(oldMap, newMap) ==
    LET changedFiles == AddedAndModified(oldMap, newMap, Entries(newMap))
                            \o Deleted(oldMap, newMap, Entries(oldMap))
        added == CountType(changedFiles, "added")
        modified == CountType(changedFiles, "modified")
        deleted == CountType(changedFiles, "deleted")
    IN  [hasChanges |-> added + modified + deleted > 0,
         changeType |-> "file_changes",
         changedFiles |-> changedFiles,
         summary |-> [added |-> added, modified |-> modified, deleted |-> deleted,
                      total |-> added + modified + deleted]]

\* the changedFiles of a first build
RECURSIVE AllAdded(_, _)
AllAdded(map, paths) ==
    IF paths = <<>> THEN <<>>
    ELSE <<[path |-> Head(paths), changeType |-> "added",
            oldHash |-> NoHash, newHash |-> map[Head(paths)].hash]>>
             \o AllAdded(map, Tail(paths))

\* detectChanges with a currentState
detectChanges(current, last) ==
    IF last = NULL
    THEN [hasChanges |-> TRUE,
          changeType |-> "initial_build",
          changedFiles |-> AllAdded(current.fileHashMap, Entries(current.fileHashMap)),
          summary |-> [added |-> Len(Entries(current.fileHashMap)), modified |-> 0,
                       deleted |-> 0, total |-> Len(Entries(current.fileHashMap))]]
    ELSE IF current.rootHash = last.rootHash
    THEN [hasChanges |-> FALSE, changeType |-> "no_changes", changedFiles |-> <<>>,
          summary |-> [added |-> 0, modified |-> 0, deleted |-> 0, total |-> 0]]
    ELSE compareFileMaps(last.fileHashMap, current.fileHashMap)

\* the text of the state file
JSONstringify(value) == [json |-> value]

Garbage == [garbage |-> TRUE]

JsonNull == [jsonNull |-> TRUE]

\* JSON.parse: the value, or Undefined where it throws
JSONparse(text) == IF "json" \in DOMAIN text THEN text.json ELSE Undefined

\* zlib.gzipSync(text).toString('base64')
Gzip64(text) == [gzip64 |-> text]

\* zlib.gunzipSync(Buffer.from(data, 'base64')): where it throws, loadLastState
\* keeps the data as read
Gunzip64(data) == IF "gzip64" \in DOMAIN data THEN data.gzip64 ELSE data

MissingFile == [kind |-> "missing"]

UnreadableFile == [kind |-> "unreadable"]

DataFile(data) == [kind |-> "data", data |-> data]

\* config.compressionEnabled, by default
compressionEnabled == TRUE

\* a load that accepts a snapshot of any version
LoadAnyVersion(snapshot, last) ==
    IF snapshot = MissingFile THEN last
    ELSE IF snapshot = UnreadableFile THEN NULL
    ELSE LET parsed == JSONparse(Gunzip64(snapshot.data))
         IN  IF parsed \in {Undefined, JsonNull} THEN NULL ELSE parsed

\* loadLastState: the lastState it leaves
loadLastState(snapshot, last) ==
    IF snapshot = MissingFile THEN last
    ELSE IF snapshot = UnreadableFile THEN NULL
    ELSE LET stateData == IF compressionEnabled THEN Gunzip64(snapshot.data) ELSE snapshot.data
             parsed == JSONparse(stateData)
         IN  IF parsed = Undefined THEN NULL
             \* null.version throws
             ELSE IF parsed = JsonNull THEN NULL
             ELSE IF parsed.version # "2.0" THEN NULL
             ELSE parsed

\* what a state file may hold when the manager starts
SnapshotValues ==
    {JsonNull} \cup {MerkleState(r, m, v) : r \in RootHashes, m \in FileHashMaps,
                                           v \in {"1.0", "2.0"}}

SnapshotTexts == {Garbage} \cup {JSONstringify(value) : value \in SnapshotValues}

SnapshotFiles ==
    {MissingFile, UnreadableFile}
        \cup {DataFile(text) : text \in SnapshotTexts}
        \cup {DataFile(Gzip64(text)) : text \in SnapshotTexts}

InitMerkle ==
    /\ ChunkIdle
    /\ CacheIdle
    /\ ConcIdle
    /\ PipeIdle
    /\ TrackerIdle
    /\ ParseIdle
    /\ ServiceIdle
    /\ stateFile \in SnapshotFiles
    /\ currentState = NULL
    /\ lastState = NULL
    /\ isInitialized = FALSE
    /\ merkleRet = [op |-> "constructor", thrown |-> FALSE]

Initialize(mkdirFails) ==
    /\ IF isInitialized
       THEN /\ ~mkdirFails
            /\ merkleRet' = [op |-> "initialize", thrown |-> FALSE]
            /\ UNCHANGED <<lastState, isInitialized>>
       ELSE IF mkdirFails
       THEN /\ merkleRet' = [op |-> "initialize", thrown |-> TRUE]
            /\ UNCHANGED <<lastState, isInitialized>>
       ELSE /\ lastState' = loadLastState(stateFile, lastState)
            /\ isInitialized' = TRUE
            /\ merkleRet' = [op |-> "initialize", thrown |-> FALSE]
    /\ UNCHANGED <<stateFile, currentState>>

BuildFromFiles(fileHashMap, rootHash) ==
    /\ currentState' = MerkleState(rootHash, fileHashMap, "2.0")
    /\ merkleRet' = [op |-> "buildFromFiles", thrown |-> FALSE]
    /\ UNCHANGED <<stateFile, lastState, isInitialized>>

DetectChanges ==
    /\ merkleRet' = (IF currentState = NULL
                     THEN [op |-> "detectChanges", thrown |-> TRUE]
                     ELSE [op |-> "detectChanges", thrown |-> FALSE,
                           changes |-> detectChanges(currentState, lastState)])
    /\ UNCHANGED <<stateFile, currentState, lastState, isInitialized>>

SaveCurrentState(writeFails) ==
    /\ IF currentState = NULL
       THEN /\ ~writeFails
            /\ merkleRet' = [op |-> "saveCurrentState", thrown |-> FALSE, saved |-> FALSE]
            /\ UNCHANGED <<stateFile, lastState>>
       ELSE IF writeFails
       THEN /\ merkleRet' = [op |-> "saveCurrentState", thrown |-> TRUE, saved |-> FALSE]
            /\ UNCHANGED <<stateFile, lastState>>
       ELSE /\ stateFile' = DataFile(IF compressionEnabled
                                     THEN Gzip64(JSONstringify(currentState))
                                     ELSE JSONstringify(currentState))
            /\ lastState' = JSONparse(JSONstringify(currentState))
            /\ merkleRet' = [op |-> "saveCurrentState", thrown |-> FALSE, saved |-> TRUE]
    /\ UNCHANGED <<currentState, isInitialized>>

NextMerkle ==
    \/ \E mkdirFails \in BOOLEAN : Initialize(mkdirFails)
    \/ \E fileHashMap \in FileHashMaps : \E rootHash \in RootHashes :
           BuildFromFiles(fileHashMap, rootHash)
    \/ DetectChanges
    \/ \E writeFails \in BOOLEAN : SaveCurrentState(writeFails)

SpecMerkle ==
    InitMerkle /\ [][NextMerkle /\ UNCHANGED <<chunkVars, cacheVars, concVars, pipeVars, trackerVars, parseVars, serviceVars>>]_vars

(***************************************************************************)
(* buildFromFiles on a list of file objects.  A file comes with its        *)
(* content or with a hash computed before; the root hash of the Merkle     *)
(* tree is known by the list of leaf hashes it was built from, so that two *)
(* lists have one root hash iff they are the same list.                    *)
(***************************************************************************)
FileContents == {"x", "y"}

FileObjects ==
    [path : {"a.go", "b.go"}, hasContent : {TRUE}, content : FileContents, hash : {NoHash}]
        \cup [path : {"a.go", "b.go"}, hasContent : {FALSE}, content : {""}, hash : Hashes]

\* the lists a scan gives: no path twice
FileLists ==
    {<<>>} \cup {<<f>> : f \in FileObjects}
           \cup {fs \in [1..2 -> FileObjects] : fs[1].path # fs[2].path}

\* config.includeMetadata, by default
includeMetadata == TRUE

\* JSON.stringify(extractMetadata(file)): extension, size and relativePath
MetadataJson(fileObject) ==
    IF includeMetadata THEN "{" \o fileObject.path \o "}" ELSE "{}"

\* crypto.createHash(...).update(content).digest('hex')
Digest(content) == "sha256(" \o content \o ")"

calculateFileHash(fileObject) ==
    IF fileObject.hasContent
    THEN Digest(fileObject.content \o (IF includeMetadata THEN MetadataJson(fileObject) ELSE ""))
    ELSE fileObject.hash

RECURSIVE HashArray(_)
HashArray(files) ==
    IF files = <<>> THEN <<>>
    ELSE <<calculateFileHash(Head(files))>> \o HashArray(Tail(files))

\* MerkleTree.buildTree(hashArray).rootHash
buildTree(hashArray) == hashArray

\* Object.fromEntries(fileHashMap)
FileHashMapOf(files) ==
    [filePath \in {files[i].path : i \in 1..Len(files)} |->
        [hash |-> calculateFileHash(
                     files[CHOOSE i \in 1..Len(files) : files[i].path = filePath])]]

InitDetect ==
    /\ ChunkIdle
    /\ CacheIdle
    /\ ConcIdle
    /\ PipeIdle
    /\ TrackerIdle
    /\ ParseIdle
    /\ ServiceIdle
    /\ stateFile = MissingFile
    /\ currentState = NULL
    /\ lastState = NULL
    /\ isInitialized = FALSE
    /\ merkleRet = [op |-> "constructor", thrown |-> FALSE]

BuildFromFileList(files) ==
    BuildFromFiles(FileHashMapOf(files), buildTree(HashArray(files)))

NextDetect ==
    \/ \E mkdirFails \in BOOLEAN : Initialize(mkdirFails)
    \/ \E files \in FileLists : BuildFromFileList(files)
    \/ DetectChanges
    \/ \E writeFails \in BOOLEAN : SaveCurrentState(writeFails)

SpecDetect ==
    InitDetect /\ [][NextDetect /\ UNCHANGED <<chunkVars, cacheVars, concVars, pipeVars, trackerVars, parseVars, serviceVars>>]_vars

(***************************************************************************)
(* PluginManager, AstParser and ParserSelector.  A path is known by the    *)
(* extension path.extname finds in it; a path that is not a string has     *)
(* none.  JavaParser is not among the parsers here, and no .java path is   *)
(* tried.                                                                  *)
(***************************************************************************)
availableParsers ==
    {"CParser", "CppParser", "CSharpParser", "GoParser", "JavaScriptParser",
     "PHPParser", "PythonParser", "RustParser"}

\* getMetadata().name and getMetadata().extensions of a parser class
MetadataName(parserName) ==
    CASE parserName = "CParser" -> "c"
      [] parserName = "CppParser" -> "cpp"
      [] parserName = "CSharpParser" -> "csharp"
      [] parserName = "GoParser" -> "go"
      [] parserName = "JavaScriptParser" -> "javascript"
      [] parserName = "PHPParser" -> "php"
      [] parserName = "PythonParser" -> "python"
      [] parserName = "RustParser" -> "rust"

MetadataExtensions(parserName) ==
    CASE parserName = "CParser" -> {".c", ".h"}
      [] parserName = "CppParser" -> {".cpp", ".cxx", ".cc", ".hpp", ".hxx"}
      [] parserName = "CSharpParser" -> {".cs"}
      [] parserName = "GoParser" -> {".go"}
      [] parserName = "JavaScriptParser" -> {".js", ".jsx", ".ts", ".tsx"}
      [] parserName = "PHPParser" -> {".php"}
      [] parserName = "PythonParser" -> {".py", ".pyx", ".pyi", ".pyw"}
      [] parserName = "RustParser" -> {".rs"}

\* every class has a getMetadata, so every class is registered under the
\* name of its metadata, whether its grammar could be required or not
loadStaticParsers == {MetadataName(parserName) : parserName \in availableParsers}

\* PluginManager.languageExtensions after loadStaticParsers
languageExtensions ==
    UNION {{<<ext, MetadataName(parserName)>> : ext \in MetadataExtensions(parserName)} :
              parserName \in availableParsers}

\* what a lookup in a JavaScript object yields for a key it does not have,
\* and the null some extensions are mapped to
NoLanguage == "<undefined>"
NullLanguage == "<null>"

LineExtensions ==
    {".json", ".yaml", ".yml", ".xml", ".html", ".css", ".md", ".txt", ".log",
     ".conf", ".config", ".ini", ".toml", ".sh", ".bat", ".ps1", ".sql",
     ".dockerfile", ".gitignore", ".env", ""}

\* the languageMapping selectParser uses when the configuration has none
DefaultLanguageMapping ==
    {<<".py", "python">>, <<".java", "java">>, <<".cs", "csharp">>, <<".rs", "rust">>,
     <<".go", "go">>, <<".c", "c">>, <<".h", "c">>, <<".js", "javascript">>,
     <<".jsx", "javascript">>, <<".ts", "javascript">>, <<".tsx", "javascript">>,
     <<".php", "php">>, <<".cpp", "cpp">>, <<".cxx", "cpp">>, <<".cc", "cpp">>,
     <<".hpp", "cpp">>, <<".hxx", "cpp">>}
    \cup {<<ext, NullLanguage>> : ext \in LineExtensions}

\* a config.languageMapping without the C extensions, and one that maps an
\* extension to a language no plugin has
CDisabledLanguageMapping ==
    {m \in DefaultLanguageMapping : m[2] # "c"}

KotlinLanguageMapping ==
    DefaultLanguageMapping \cup {<<".kt", "kotlin">>}

LanguageMappings == {DefaultLanguageMapping, CDisabledLanguageMapping, KotlinLanguageMapping}

\* languageMapping[extension]
MappedLanguage(languageMapping, extension) ==
    IF \E m \in languageMapping : m[1] = extension
    THEN (CHOOSE m \in languageMapping : m[1] = extension)[2]
    ELSE NoLanguage

\* String.prototype.toLowerCase on the extensions tried
ToLowerCase(ext) ==
    CASE ext = ".C" -> ".c"
      [] ext = ".H" -> ".h"
      [] ext = ".JS" -> ".js"
      [] ext = ".Go" -> ".go"
      [] OTHER -> ext

\* the paths tried: the extension of each, and undefined for a path that is
\* not a string
NotAString == [isString |-> FALSE, ext |-> ""]
PathOf(ext) == [isString |-> TRUE, ext |-> ext]
FilePaths ==
    {PathOf(ext) : ext \in {".c", ".h", ".C", ".H", ".go", ".Go", ".js", ".JS", ".py",
                            ".kt", ".zig", ".json", ".md", ""}}
    \cup {NotAString}

\* ParserSelector.selectParser: the key of the parser it returns.
\* path.extname throws on a path that is not a string, and the catch block
\* returns the readline parser
selectParser(reg, filePath) ==
    IF ~filePath.isString THEN "readline"
    ELSE LET extension == ToLowerCase(filePath.ext)
             language == MappedLanguage(reg.languageMapping, extension)
         IN  IF language = NullLanguage THEN "readline"
             ELSE IF language = NoLanguage THEN "readline"
             ELSE IF language \in reg.plugins THEN "ast"
             ELSE "readline"

\* CParser._ensureParserInitialized: throws unless tree-sitter-c was
\* required and set as the language
EnsureParserInitializedThrows(reg, language) ==
    language = "c" /\ ~reg.cLanguage

\* AstParser.parse(filePath, content): which chunker produced the list it
\* returns; parseContent of the C parser catches the error of
\* _ensureParserInitialized and returns an empty list
AstParse(reg, filePath) ==
    LET ext == ToLowerCase(filePath.ext)
    IN  IF ~\E e \in languageExtensions : e[1] = ext
        THEN [thrown |-> TRUE, chunker |-> "none"]
        ELSE LET language == (CHOOSE e \in languageExtensions : e[1] = ext)[2]
             IN  IF EnsureParserInitializedThrows(reg, language)
                 THEN [thrown |-> FALSE, chunker |-> "none"]
                 ELSE [thrown |-> FALSE, chunker |-> language \o "_parser"]

InitSelect ==
    /\ ChunkIdle
    /\ CacheIdle
    /\ ConcIdle
    /\ PipeIdle
    /\ TrackerIdle
    /\ MerkleIdle
    /\ ServiceIdle
    /\ registry \in [plugins : {loadStaticParsers}, cLanguage : BOOLEAN,
                     languageMapping : LanguageMappings]
    /\ selected = [op |-> "none"]
    /\ ladder = <<>>

\* one call of selectParser
SelectParser(filePath) ==
    /\ selected' = [op |-> "selectParser", filePath |-> filePath,
                    parser |-> selectParser(registry, filePath), thrown |-> FALSE]
    /\ UNCHANGED <<registry, ladder>>

\* the parser selected parses the file
ParseSelected ==
    /\ selected.op = "selectParser"
    /\ selected' = [op |-> "parse", filePath |-> selected.filePath,
                    parser |-> selected.parser] @@
                   (IF selected.parser = "ast" THEN AstParse(registry, selected.filePath)
                    ELSE [thrown |-> FALSE, chunker |-> "readline"])
    /\ UNCHANGED <<registry, ladder>>

NextSelect ==
    \/ \E filePath \in FilePaths : SelectParser(filePath)
    \/ ParseSelected

SpecSelect ==
    InitSelect /\ [][NextSelect /\ UNCHANGED <<chunkVars, cacheVars, concVars, pipeVars, trackerVars, merkleVars, serviceVars>>]_vars

(***************************************************************************)
(* parseContent of an AST parser, grammar call by grammar call.  The       *)
(* Python parser stands for the parsers that end with an empty list, the   *)
(* JavaScript parser is the one with a line fallback.  A content is known  *)
(* by its length in characters, the NUL characters in it, whether it has   *)
(* other control characters or carriage returns, and its lines; a text     *)
(* handed to the grammar by what was done to the content.                  *)
(***************************************************************************)
MiB == 1024 * 1024
firstLines == 100               \* lines kept for the third grammar call
invalidArgumentLines == 50      \* the same after an 'Invalid argument' error

LadderLanguages == {"python", "javascript"}

NotAContent == [isString |-> FALSE, length |-> 0, nuls |-> 0, ctrl |-> FALSE, lines |-> 0]

Contents ==
    {NotAContent} \cup
    {c \in [isString : {TRUE}, length : {0, SmallLine, MiB + 1, 10 * MiB + 1},
            nuls : {0, 1}, ctrl : BOOLEAN,
            lines : {1, invalidArgumentLines + 1, firstLines + 1}] :
        /\ c.nuls <= c.length
        /\ c.lines <= c.length + 1
        /\ (c.length = 0 => ~c.ctrl)}

\* what the grammar does with a text: a tree, no tree, or an error thrown,
\* whose message may hold 'Invalid argument'
GrammarOutcomes == {"tree", "null", "Error", "Invalid argument"}
Threw(outcome) == outcome \in {"Error", "Invalid argument"}

\* content.replace(/\0/g, '') and the substring(0, 1 MiB) that follows it
StripNul(content) ==
    [length |-> content.length - content.nuls, nuls |-> 0, ctrl |-> content.ctrl,
     lines |-> content.lines, truncated |-> FALSE, aggressive |-> FALSE,
     lineLimit |-> 0]

Truncate(text) ==
    IF text.length > MiB
    THEN [text EXCEPT !.length = MiB, !.truncated = TRUE]
    ELSE text

\* JavaScriptParser._aggressiveContentCleaning
_aggressiveContentCleaning(text) == [text EXCEPT !.aggressive = TRUE]

\* the replace calls before the second grammar call
StripControl(text) == [text EXCEPT !.ctrl = FALSE]

\* the text of the second grammar call
SecondText(language, text, parseError) ==
    StripControl(IF language = "javascript" /\ parseError = "Invalid argument"
                 THEN _aggressiveContentCleaning(text)
                 ELSE text)

\* a ladder that keeps the same number of lines whatever the error
FirstLinesAlways(language, secondError) == firstLines

\* the number of lines kept for the third grammar call
chunkSize(language, secondError) ==
    IF language = "javascript" /\ secondError = "Invalid argument"
    THEN invalidArgumentLines
    ELSE firstLines

\* lines.slice(0, n).join('\n')
FirstLinesOf(text, n) == [text EXCEPT !.lineLimit = n]

\* what parseContent returns when it has no tree or no chunk: an empty list,
\* or the chunks of _fallbackLineParsing
WithoutTree(language) == IF language = "javascript" THEN "fallback" ELSE "empty"

InitLadder ==
    /\ ChunkIdle
    /\ CacheIdle
    /\ ConcIdle
    /\ PipeIdle
    /\ TrackerIdle
    /\ MerkleIdle
    /\ ServiceIdle
    /\ registry = <<>>
    /\ selected = <<>>
    /\ ladder \in [language : LadderLanguages, content : Contents, pc : {"start"},
                   cleanContent : {<<>>}, calls : {<<>>}, outcomes : {<<>>},
                   result : {"none"}, thrown : {FALSE}]

\* the checks of the content and the first cleaning
Validate ==
    /\ ladder.pc = "start"
    /\ ladder' =
         IF \/ ~ladder.content.isString
            \/ ladder.content.length = 0
            \/ ladder.content.length > 10 * MiB
         THEN [ladder EXCEPT !.pc = "done", !.result = "empty"]
         ELSE [ladder EXCEPT !.pc = "first",
                             !.cleanContent = Truncate(StripNul(ladder.content))]
    /\ UNCHANGED <<registry, selected>>

\* this.parser.parse(cleanContent), and the catch block of its error
FirstAttempt(outcome) ==
    /\ ladder.pc = "first"
    /\ ladder' =
         [ladder EXCEPT !.calls = Append(@, ladder.cleanContent),
                        !.outcomes = Append(@, outcome),
                        !.pc = IF Threw(outcome) THEN "second" ELSE "extract",
                        !.cleanContent =
                            IF Threw(outcome)
                            THEN SecondText(ladder.language, ladder.cleanContent, outcome)
                            ELSE @]
    /\ UNCHANGED <<registry, selected>>

SecondAttempt(outcome) ==
    /\ ladder.pc = "second"
    /\ ladder' =
         [ladder EXCEPT !.calls = Append(@, ladder.cleanContent),
                        !.outcomes = Append(@, outcome),
                        !.pc = IF Threw(outcome) THEN "third" ELSE "extract"]
    /\ UNCHANGED <<registry, selected>>

\* the grammar call on the first lines: its error ends parseContent
ThirdAttempt(outcome) ==
    /\ ladder.pc = "third"
    /\ LET truncatedContent ==
               FirstLinesOf(ladder.cleanContent,
                            chunkSize(ladder.language, ladder.outcomes[2]))
       IN  ladder' =
             [ladder EXCEPT !.calls = Append(@, truncatedContent),
                            !.outcomes = Append(@, outcome),
                            !.pc = IF Threw(outcome) THEN "done" ELSE "extract",
                            !.result = IF Threw(outcome)
                                       THEN WithoutTree(ladder.language) ELSE @]
    /\ UNCHANGED <<registry, selected>>

\* the rest of parseContent: the extraction throws, or yields chunks or none
Extract(extracted) ==
    /\ ladder.pc = "extract"
    /\ ladder' =
         [ladder EXCEPT !.pc = "done",
                        !.result =
                            IF ladder.outcomes[Len(ladder.outcomes)] = "null"
                            THEN WithoutTree(ladder.language)
                            ELSE IF extracted = "chunks" THEN "chunks"
                            ELSE IF extracted = "none" /\ ladder.language # "javascript"
                            THEN "empty"
                            \* thrown, or no chunk in the JavaScript parser
                            ELSE WithoutTree(ladder.language)]
    /\ UNCHANGED <<registry, selected>>

NextLadder ==
    \/ Validate
    \/ \E outcome \in GrammarOutcomes : FirstAttempt(outcome)
    \/ \E outcome \in GrammarOutcomes : SecondAttempt(outcome)
    \/ \E outcome \in GrammarOutcomes : ThirdAttempt(outcome)
    \/ \E extracted \in {"chunks", "none", "thrown"} : Extract(extracted)

SpecLadder ==
    InitLadder /\ [][NextLadder /\ UNCHANGED <<chunkVars, cacheVars, concVars, pipeVars, trackerVars, merkleVars, serviceVars>>]_vars

(***************************************************************************)
(* IndexCacheService (indexCacheService.ts).  A step is one task of the    *)
(* event loop: a call, a timer or the completion of a file operation,      *)
(* together with the promise continuations it wakes.  The records of the   *)
(* cache are the numbers of the changes made to them; a save operation is  *)
(* the number of its place in the order of the executeWithQueue calls.     *)
(***************************************************************************)
maxRetries == 3
retryDelay == 500
MaxChanges == 2         \* changes made to the records of the service

FileOutcomes == {"ok", "EBUSY", "EACCES"}

ChangeKinds == {"markFileAsIndexed", "isFileIndexed", "updateAccessStats"}

NoOperation ==
    [op |-> 0, pc |-> "none", attempt |-> 0, inner |-> 0, content |-> {},
     copies |-> 0, writes |-> 0, delay |-> 0]

NoLoad == [pc |-> "none", attempt |-> 0, reads |-> 0, delay |-> 0]

NewService(backupEnabled, fileExists) ==
    [isInitialized |-> FALSE, cache |-> {}, hasUnsavedChanges |-> FALSE,
     batchSaveTimer |-> FALSE, isWriting |-> FALSE, pendingWrites |-> <<>>,
     backupEnabled |-> backupEnabled,
     \* the cache file and its backup
     fileExists |-> fileExists, fileRecords |-> {}, backupExists |-> FALSE,
     \* the operations given to executeWithQueue, the one that runs, the
     \* order in which they started
     ops |-> <<>>, running |-> NoOperation, startOrder |-> <<>>,
     load |-> NoLoad, destroy |-> "none", changes |-> 0, lastChange |-> "none"]

\* a retry that stops at the first error
NoRetry(outcome, attempt, retries) ==
    IF outcome = "ok" THEN [next |-> "return", delay |-> 0]
    ELSE [next |-> "throw", delay |-> 0]

\* what follows attempt `attempt` of `retries` that ended with `outcome`
retryFileOperation(outcome, attempt, retries) ==
    IF outcome = "ok" THEN [next |-> "return", delay |-> 0]
    ELSE IF outcome = "EBUSY" /\ attempt < retries
    THEN [next |-> "retry", delay |-> retryDelay * attempt]
    ELSE [next |-> "throw", delay |-> 0]

\* one attempt of the operation of saveCache up to its first file operation:
\* the records are serialised, then the backup copy or the write starts
StartAttempt(svc, op, attempt, copies, writes) ==
    [svc EXCEPT !.running =
        [op |-> op,
         pc |-> IF svc.backupEnabled /\ svc.fileExists THEN "copyFile" ELSE "writeFile",
         attempt |-> attempt, inner |-> 1, content |-> svc.cache,
         copies |-> copies, writes |-> writes, delay |-> 0]]

\* pendingWrites.shift() and the call of the operation
RunNext(svc) ==
    LET op == Head(svc.pendingWrites)
        shifted == [svc EXCEPT !.pendingWrites = Tail(@),
                               !.ops[op].state = "running",
                               !.ops[op].starts = @ + 1,
                               !.startOrder = Append(@, op)]
    IN  StartAttempt(shifted, op, 1, 0, 0)

\* a queue that starts an operation while another one runs
AlwaysProcess(svc) == svc.pendingWrites # <<>>

\* the guard of processWriteQueue
CanProcess(svc) == ~svc.isWriting /\ svc.pendingWrites # <<>>

processWriteQueue(svc) ==
    IF CanProcess(svc) THEN RunNext([svc EXCEPT !.isWriting = TRUE]) ELSE svc

\* saveCache for a caller: the operation is queued and the queue is woken
executeWithQueue(svc, caller) ==
    processWriteQueue([svc EXCEPT
        !.ops = Append(@, [caller |-> caller, state |-> "queued", starts |-> 0]),
        !.pendingWrites = Append(@, Len(svc.ops) + 1)])

\* the caller of forceSave or saveCache goes on after a save that succeeded
\* or was not needed
Returned(svc, caller) ==
    IF caller = "destroy"
    THEN [svc EXCEPT !.cache = {}, !.isInitialized = FALSE, !.destroy = "destroyed"]
    ELSE IF caller = "recoverFromError"
    THEN [svc EXCEPT !.isInitialized = TRUE, !.load.pc = "done"]
    ELSE svc

\* the caller of forceSave or saveCache after a save that was rejected
Thrown(svc, caller) ==
    IF caller = "destroy" THEN [svc EXCEPT !.destroy = "failed"]
    ELSE IF caller = "recoverFromError"
    THEN [svc EXCEPT !.cache = {}, !.isInitialized = TRUE, !.load.pc = "done"]
    ELSE svc

\* a forceSave that forgets to clear hasUnsavedChanges
KeepUnsaved(svc, caller) == Returned(svc, caller)

\* forceSave after `await this.saveCache()`
SaveCacheDone(svc, caller) ==
    IF caller = "recoverFromError" THEN Returned(svc, caller)
    ELSE Returned([svc EXCEPT !.hasUnsavedChanges = FALSE], caller)

forceSave(svc, caller) ==
    IF ~svc.hasUnsavedChanges THEN Returned(svc, caller)
    ELSE executeWithQueue([svc EXCEPT !.batchSaveTimer = FALSE], caller)

\* the running operation settles: the loop of processWriteQueue takes the
\* next operation or ends, then the caller of saveCache goes on
Settle(svc, result) ==
    LET op == svc.running.op
        caller == svc.ops[op].caller
        settled == [svc EXCEPT !.ops[op].state = result, !.running = NoOperation]
        looped == IF settled.pendingWrites # <<>> THEN RunNext(settled)
                  ELSE [settled EXCEPT !.isWriting = FALSE]
    IN  IF result = "resolved" THEN SaveCacheDone(looped, caller) ELSE Thrown(looped, caller)

scheduleDelayedSave(svc) == [svc EXCEPT !.hasUnsavedChanges = TRUE, !.batchSaveTimer = TRUE]

\* recoverFromError when there is no backup to restore
recoverFromError(svc) == executeWithQueue([svc EXCEPT !.cache = {}], "recoverFromError")

InitService ==
    /\ ChunkIdle
    /\ CacheIdle
    /\ ConcIdle
    /\ PipeIdle
    /\ TrackerIdle
    /\ MerkleIdle
    /\ ParseIdle
    /\ \E backupEnabled \in BOOLEAN : \E fileExists \in BOOLEAN :
           service = NewService(backupEnabled, fileExists)

\* initialize up to the read of loadCache
ServiceInitialize ==
    /\ ~service.isInitialized
    /\ service.load.pc = "none"
    /\ service.destroy = "none"
    /\ service' = IF ~service.fileExists
                  THEN [service EXCEPT !.isInitialized = TRUE, !.load.pc = "done"]
                  ELSE [service EXCEPT !.load = [pc |-> "readFile", attempt |-> 1,
                                                 reads |-> 0, delay |-> 0]]

\* the read of loadCache ends
ReadResult(outcome) ==
    LET load == service.load
        step == retryFileOperation(outcome, load.attempt, maxRetries)
        read == [service EXCEPT !.load.reads = @ + 1]
    IN  /\ load.pc = "readFile"
        /\ service' =
              IF step.next = "return"
              THEN [read EXCEPT !.cache = service.fileRecords, !.isInitialized = TRUE,
                                !.load.pc = "done"]
              ELSE IF step.next = "retry"
              THEN [read EXCEPT !.load.pc = "retryDelay", !.load.delay = step.delay]
              ELSE recoverFromError([read EXCEPT !.load.pc = "recoverFromError"])

ReadRetry ==
    /\ service.load.pc = "retryDelay"
    /\ service' = [service EXCEPT !.load.pc = "readFile", !.load.attempt = @ + 1]

\* markFileAsIndexed, the removal of a stale record in isFileIndexed, or an
\* access-stat update of a record
Change(kind) ==
    /\ service.isInitialized
    /\ service.destroy = "none"
    /\ service.changes < MaxChanges
    /\ kind # "markFileAsIndexed" => service.cache # {}
    /\ service' = scheduleDelayedSave([service EXCEPT
                      !.cache = @ \cup {service.changes + 1},
                      !.changes = @ + 1,
                      !.lastChange = kind])

\* the timer of scheduleDelayedSave fires
BatchSaveTimerFires ==
    /\ service.batchSaveTimer
    /\ service' = forceSave([service EXCEPT !.batchSaveTimer = FALSE], "forceSave")

\* the copy or the write of the running operation ends
FileOpResult(outcome) ==
    LET run == service.running
        step == retryFileOperation(outcome, run.inner, maxRetries)
        outer == retryFileOperation(outcome, run.attempt, maxRetries)
        counted == [service EXCEPT
                       !.running.copies = IF run.pc = "copyFile" THEN @ + 1 ELSE @,
                       !.running.writes = IF run.pc = "writeFile" THEN @ + 1 ELSE @]
    IN  /\ run.pc \in {"copyFile", "writeFile"}
        /\ service' =
              IF step.next = "return"
              THEN (IF run.pc = "copyFile"
                    THEN [counted EXCEPT !.backupExists = TRUE, !.running.pc = "writeFile",
                                         !.running.inner = 1]
                    ELSE Settle([counted EXCEPT !.fileExists = TRUE,
                                                !.fileRecords = run.content], "resolved"))
              ELSE IF step.next = "retry"
              THEN [counted EXCEPT !.running.pc = IF run.pc = "copyFile" THEN "copyRetry"
                                                  ELSE "writeRetry",
                                   !.running.delay = step.delay]
              ELSE IF outer.next = "retry"
              THEN [counted EXCEPT !.running.pc = "saveRetry", !.running.delay = outer.delay]
              ELSE Settle(counted, "rejected")

\* the delay before a retry is over
RetryTimerFires ==
    LET run == service.running
    IN  /\ run.pc \in {"copyRetry", "writeRetry", "saveRetry"}
        /\ service' =
              IF run.pc = "saveRetry"
              THEN StartAttempt(service, run.op, run.attempt + 1, run.copies, run.writes)
              ELSE [service EXCEPT !.running.pc = IF run.pc = "copyRetry" THEN "copyFile"
                                                  ELSE "writeFile",
                                   !.running.inner = @ + 1]

Destroy ==
    /\ service.isInitialized
    /\ service.destroy = "none"
    /\ service' = forceSave([service EXCEPT !.batchSaveTimer = FALSE, !.destroy = "saving"],
                            "destroy")

ServiceRest == UNCHANGED <<chunkVars, cacheVars, concVars, pipeVars, trackerVars, merkleVars, parseVars>>

NextService ==
    \/ ServiceInitialize
    \/ \E outcome \in FileOutcomes : ReadResult(outcome)
    \/ ReadRetry
    \/ \E kind \in ChangeKinds : Change(kind)
    \/ BatchSaveTimerFires
    \/ \E outcome \in FileOutcomes : FileOpResult(outcome)
    \/ RetryTimerFires
    \/ Destroy

SpecService ==
    InitService /\ [][NextService /\ UNCHANGED <<chunkVars, cacheVars, concVars, pipeVars, trackerVars, merkleVars, parseVars>>]_vars

\* file operations end and timers fire
FairService ==
    /\ SpecService
    /\ WF_vars(ServiceInitialize /\ ServiceRest)
    /\ WF_vars((\E outcome \in FileOutcomes : ReadResult(outcome)) /\ ServiceRest)
    /\ WF_vars(ReadRetry /\ ServiceRest)
    /\ WF_vars(BatchSaveTimerFires /\ ServiceRest)
    /\ WF_vars((\E outcome \in FileOutcomes : FileOpResult(outcome)) /\ ServiceRest)
    /\ WF_vars(RetryTimerFires /\ ServiceRest)

\* a service whose file operations all succeed
NextPersist ==
    \/ ServiceInitialize
    \/ ReadResult("ok")
    \/ \E kind \in ChangeKinds : Change(kind)
    \/ BatchSaveTimerFires
    \/ FileOpResult("ok")
    \/ Destroy

FairPersist ==
    /\ InitService
    /\ [][NextPersist /\ UNCHANGED <<chunkVars, cacheVars, concVars, pipeVars, trackerVars, merkleVars, parseVars>>]_vars
    /\ WF_vars(ServiceInitialize /\ ServiceRest)
    /\ WF_vars(ReadResult("ok") /\ ServiceRest)
    /\ WF_vars(BatchSaveTimerFires /\ ServiceRest)
    /\ WF_vars(FileOpResult("ok") /\ ServiceRest)

(***************************************************************************)
(* Claims about the cache, one caller at a time.                           *)
(***************************************************************************)
Cached(tbl) == {k \in Pairs : getEntry(tbl, generateCacheKey(k[1], k[2])) # NULL}

C6_Freshness ==
    [][\A k \in Pairs :
          LET cacheKey == generateCacheKey(k[1], k[2])
              entry == getEntry(table, cacheKey)
              old == entry # NULL /\ now - entry.created_at > config.ttlHours
          IN  /\ Get(k[1], k[2]) =>
                   /\ ret'.value # NULL => entry # NULL /\ ~old
                   /\ old => ret'.value = NULL /\ getEntry(table', cacheKey) = NULL
              /\ Has(k[1], k[2]) =>
                   /\ ret'.value => entry # NULL /\ ~old
                   /\ old => ~ret'.value /\ getEntry(table', cacheKey) = NULL]_vars

\* C6 witness: a get found an entry older than ttlHours
C6_Witness ==
    /\ ret.op = "get" /\ ret.found = "expired"
    /\ <<ret.path, ret.hash>> \notin Cached(table)

\* C7: after enforceStorageLimits, and so after every set, the table holds
\* at most maxEntries rows and at most 0.8 * maxSizeBytes bytes
C7_LimitsAfterEnforce ==
    ret.op \in {"set", "enforceStorageLimits"} =>
        /\ getStats(table).entryCount <= maxEntries
        /\ getStats(table).totalSize * 10 <= maxSizeBytes * 8

\* the rows a set or an enforceStorageLimits step evicted are not more
\* recently accessed than the rows it kept
EvictedOldest ==
    \A k \in Pairs : \A d \in DataValues :
        LET written == setEntry(table, NewEntry(k[1], k[2], d))
        IN  /\ Set(k[1], k[2], d) =>
                \A e \in written \ table' : \A r \in table' :
                    e.last_accessed <= r.last_accessed
            /\ EnforceStorageLimits =>
                \A e \in table \ table' : \A r \in table' :
                    e.last_accessed <= r.last_accessed

\* C7 as amended: after enforceStorageLimits, and so after every set, the
\* table holds at most maxEntries rows and at most maxSizeBytes bytes (the
\* bytes are brought down to 0.8 * maxSizeBytes only when they exceeded
\* maxSizeBytes), and the evicted rows are the least recently accessed
C7_LimitsAmended ==
    /\ [](ret.op \in {"set", "enforceStorageLimits"} =>
            /\ getStats(table).entryCount <= maxEntries
            /\ getStats(table).totalSize <= maxSizeBytes)
    /\ [][EvictedOldest]_vars

\* C7 witness: a set left the table between 80% and 100% of the size limit
C7_Witness ==
    /\ ret.op = "set"
    /\ getStats(table).entryCount = maxEntries
    /\ getStats(table).totalSize * 10 > maxSizeBytes * 8

\* C8: after any sequence of sets and gets with last_accessed advancing, the
\* cache holds exactly the maxEntries most recently accessed pairs, or all
\* of them if fewer were written
C8_LruKeepsMostRecent ==
    LET written == {k \in Pairs : accessed[k] >= 0}
        kept == Cached(table)
    IN  /\ kept \subseteq written
        /\ Cardinality(kept) = (IF Cardinality(written) < maxEntries
                                THEN Cardinality(written) ELSE maxEntries)
        /\ \A k \in kept : \A j \in written \ kept : accessed[k] > accessed[j]

\* C8 witness: a set evicted the pair written after the one a get refreshed
C8_Witness ==
    /\ ret.op = "set"
    /\ \E k \in Cached(table) : \E j \in Pairs \ Cached(table) :
           /\ accessed[j] >= 0
           /\ lastSet[j] # NULL
           /\ \E r \in table : r.cache_key = generateCacheKey(k[1], k[2])
                               /\ r.created_at < accessed[j]

(***************************************************************************)
(* Claims about the chunkers.                                              *)
(***************************************************************************)
ChunkIndex == 1..Len(chunks)

\* C1: every chunk a chunker returns has content of at most 9216 bytes
C1_ChunkSizeCap ==
    \A k \in ChunkIndex : ByteLength(file, chunks[k].content) <= maxChunkSize

\* C4: in the list a merging parser returns, any two chunks of the same type
\* are at least 3 lines apart: the later starts after the earlier's endLine + 2
C4_SameTypeApart ==
    parser = "go" =>
        \A i \in ChunkIndex : \A j \in ChunkIndex :
            (i # j /\ chunks[i].type = chunks[j].type
                   /\ chunks[i].startLine <= chunks[j].startLine)
            => chunks[j].startLine > chunks[i].endLine + 2

\* C4 as amended: in the list a merging parser returns, two chunks of the same
\* type that are next to each other in the list are at least 3 lines apart
C4_AdjacentSameTypeApart ==
    parser = "go" =>
        \A k \in 1..(Len(chunks) - 1) :
            chunks[k].type = chunks[k + 1].type
            => chunks[k + 1].startLine > chunks[k].endLine + 2

\* C4 witness: the merge pass returned two same-type chunks next to each other
C4_Witness ==
    /\ parser = "go"
    /\ \E k \in 1..(Len(chunks) - 1) : chunks[k].type = chunks[k + 1].type
    /\ Len(chunks) < Len(nodes)

\* C12: when every parse attempt of the grammar fails on a non-empty file the
\* chunk list is not empty, covers the file from its first line to its last
\* without a gap, and every chunk has type "fallback"
C12_FallbackToLineChunker ==
    (parser \in {"go", "js"} /\ parseThrows /\ ~IsEmptyContent(file)) =>
        /\ chunks # <<>>
        /\ chunks[1].startLine = 1
        /\ chunks[Len(chunks)].endLine = Len(file)
        /\ \A k \in 1..(Len(chunks) - 1) : chunks[k + 1].startLine = chunks[k].endLine + 1
        /\ \A k \in ChunkIndex : chunks[k].type = "fallback"

\* C19: no two chunks of the list a parser returns for a file share a chunkId
C19_ChunkIdUnique ==
    \A i \in ChunkIndex : \A j \in ChunkIndex : i # j => chunks[i].chunkId # chunks[j].chunkId

\* C5: the content of every chunk is the file's lines startLine..endLine
\* joined by newlines
C5_ContentIsFileLines ==
    \A k \in ChunkIndex :
        chunks[k].content = JoinLines(file, chunks[k].startLine, chunks[k].endLine, 0)

\* C23: the chunks of the line chunker cover a non-empty file exactly: the
\* first starts at line 1, each next one starts at the line after the end
\* of the one before, the last ends at the last line, and the content of
\* each chunk is its lines of the file
C23_LineChunksCoverFile ==
    (parser = "line" /\ ~IsEmptyContent(file)) =>
        /\ chunks # <<>>
        /\ chunks[1].startLine = 1
        /\ chunks[Len(chunks)].endLine = Len(file)
        /\ \A k \in 1..(Len(chunks) - 1) : chunks[k + 1].startLine = chunks[k].endLine + 1
        /\ \A k \in ChunkIndex :
               /\ chunks[k].startLine <= chunks[k].endLine
               /\ chunks[k].content
                      = JoinLines(file, chunks[k].startLine, chunks[k].endLine, 0)

\* C23 witness: the line chunker cut a file of three lines or more in two
\* chunks or more
C23_Witness ==
    /\ parser = "line"
    /\ Len(file) >= 3
    /\ Len(chunks) >= 2

\* C35: when processWorkspace has returned normally, no file the tracker
\* reports as completed has a chunk that is failed, pending or processing
C35_CompletedFilesHaveNoFailedChunk ==
    (runs # <<>> /\ runs[Len(runs)].result = "true") =>
        \A f \in DOMAIN tracker.fileStatus :
            tracker.fileStatus[f] = "completed" =>
                \A id \in DOMAIN tracker.chunks :
                    tracker.chunks[id].filePath = f
                        => tracker.chunks[id].status = "completed"

\* the chunks the cache holds for the files of a set
RECURSIVE StoredChunks(_)
StoredChunks(files) ==
    IF files = {} THEN 0
    ELSE LET f == CHOOSE x \in files : TRUE
         IN  chunkCount[f] + StoredChunks(files \ {f})

\* C33: processWorkspace drops no scanned file: every file batchCheck found
\* cached contributes the chunks stored for it to the chunks registered and
\* sent, and every other file is handed to the dispatcher, also when the
\* later get finds nothing
C33_NoFileDropped ==
    \A k \in 1..Len(runs) :
        runs[k].result = "true" =>
            /\ runs[k].cached \cup runs[k].dispatched = fileList
            /\ runs[k].cachedChunks = StoredChunks(runs[k].cached)

\* C27: when processWorkspace has returned, every cache put it started has
\* completed: no put is outstanding between two calls of the pipeline, so
\* none can be cut off by a shutdown that closes the database
C27_NoPutOutstandingAfterReturn ==
    Len(runs) > 0 => cacheStorePromises = {}

\* C34: count-based eviction removes only the excess also when set calls run
\* concurrently: a deleteOldestEntries issued by enforceStorageLimits while
\* only set calls are in flight leaves at least maxEntries rows in the table
C34_EvictsOnlyExcess ==
    [][\A c \in Calls :
          (/\ calls[c].pc = "deleteOldestEntries"
           /\ calls'[c] # calls[c]
           /\ \A d \in Calls : calls[d].op \in {"idle", "set"}
           /\ Cardinality(table) >= maxEntries)
              => Cardinality(table') >= maxEntries]_vars

\* the candidates of the file in the order the merge pass walks them
Sorted == SortByStartLine(ExtractAll(file, nodes, GoTypeOrder, 1))

\* candidate i is merged into the running chunk, which ends with candidate
\* i - 1 and has the type of its first candidate
Joined(i) ==
    /\ i > 1
    /\ Sorted[i].type = Sorted[i - 1].type
    /\ Sorted[i].startLine <= Sorted[i - 1].endLine + 2

\* the candidate that starts the k-th chunk and the one that ends it
RunStart(k) ==
    CHOOSE i \in 1..Len(Sorted) :
        ~Joined(i) /\ Cardinality({j \in 1..(i - 1) : ~Joined(j)}) = k - 1

RunEnd(k) ==
    CHOOSE i \in RunStart(k)..Len(Sorted) :
        /\ \A j \in (RunStart(k) + 1)..i : Joined(j)
        /\ i = Len(Sorted) \/ ~Joined(i + 1)

\* the contents of candidates a..b with the newlines between them
RECURSIVE RunContent(_, _)
RunContent(a, b) ==
    IF a = b THEN Sorted[a].content
    ELSE RunContent(a, b - 1)
         \o (IF Sorted[b].startLine - Sorted[b - 1].endLine > 0
             THEN Newlines(Sorted[b].startLine - Sorted[b - 1].endLine) ELSE <<>>)
         \o Sorted[b].content

\* the names of candidates a..b
RunNames(a, b) == {Sorted[i].name : i \in a..b} \ {""}

ChunkName(chunk) == IF "name" \in DOMAIN chunk THEN chunk.name ELSE ""

\* C28: _mergeAdjacentChunks walks the candidates once in ascending
\* startLine order and merges the next candidate into the running chunk iff
\* both have the same type and next.startLine <= current.endLine + 2; the
\* merged chunk keeps the startLine of its first candidate, its content is
\* the contents of its candidates in order with (next.startLine -
\* current.endLine) newlines between two of them when that is positive, and
\* its name is the name of its earliest candidate that has one
C28_MergeRule ==
    (parser = "go" /\ ~parseThrows /\ ~IsEmptyContent(file)) =>
        /\ \A i \in 1..(Len(Sorted) - 1) : Sorted[i].startLine <= Sorted[i + 1].startLine
        /\ Len(chunks) = Cardinality({i \in 1..Len(Sorted) : ~Joined(i)})
        /\ \A k \in ChunkIndex :
               LET a == RunStart(k)
                   b == RunEnd(k)
               IN  /\ chunks[k].type = Sorted[a].type
                   /\ chunks[k].startLine = Sorted[a].startLine
                   /\ chunks[k].endLine = Sorted[b].endLine
                   /\ chunks[k].content = RunContent(a, b)
                   /\ IF RunNames(a, b) = {} THEN ChunkName(chunks[k]) = ""
                      ELSE \E i \in a..b :
                              /\ Sorted[i].name # ""
                              /\ \A j \in a..(i - 1) : Sorted[j].name = ""
                              /\ ChunkName(chunks[k]) = Sorted[i].name

\* C28 witness: three candidates with a line between two of them were merged
\* into one chunk; the first has no name and the chunk has the name of the
\* second, not of the third
C28_Witness ==
    /\ parser = "go"
    /\ Len(nodes) = 3
    /\ Len(chunks) = 1
    /\ nodes[1].name = "" /\ nodes[2].name = "a" /\ nodes[3].name = "b"
    /\ \E i \in 2..3 : Sorted[i].startLine > Sorted[i - 1].endLine + 1
    /\ ChunkName(chunks[1]) = "a"

\* C32: the range of every chunk _mergeAdjacentChunks produces contains the
\* line range of every candidate merged into it, nested and overlapping
\* candidates included: its startLine is the least and its endLine the
\* greatest of theirs
C32_MergedRangeContainsCandidates ==
    (parser = "go" /\ ~parseThrows /\ ~IsEmptyContent(file)) =>
        \A k \in ChunkIndex :
            \A i \in RunStart(k)..RunEnd(k) :
                /\ chunks[k].startLine <= Sorted[i].startLine
                /\ Sorted[i].endLine <= chunks[k].endLine

\* the text of the first grammar call: the content without its NUL
\* characters, cut to 1 MiB
FirstText == Truncate(StripNul(ladder.content))

\* the grammar calls were made one after the other's error, on the texts of
\* the ladder, the third on the first n lines
LadderFollowed(n) ==
    /\ Len(ladder.calls) <= 3
    /\ \A i \in 1..(Len(ladder.calls) - 1) : Threw(ladder.outcomes[i])
    /\ Len(ladder.calls) >= 1 =>
           /\ ladder.calls[1] = FirstText
           /\ ladder.calls[1].nuls = 0 /\ ladder.calls[1].length <= MiB
    /\ Len(ladder.calls) >= 2 =>
           /\ ~ladder.calls[2].ctrl
           /\ [ladder.calls[2] EXCEPT !.aggressive = FALSE] = StripControl(FirstText)
    /\ Len(ladder.calls) >= 3 =>
           ladder.calls[3] = FirstLinesOf(ladder.calls[2], n)
    /\ (ladder.pc = "extract" => ~Threw(ladder.outcomes[Len(ladder.outcomes)]))

\* parseContent returns a list and does not throw
LadderReturnsList ==
    /\ ~ladder.thrown
    /\ (ladder.pc = "done" => ladder.result \in {"chunks", "empty", "fallback"})
    /\ (ladder.pc # "done" => ladder.result = "none")

\* C29: the grammar attempts of a file follow the ladder NUL-stripped
\* content cut to 1 MiB, then control characters stripped and line ends
\* normalised, then the first 100 lines only, then give up: a stage is
\* attempted only after the one before threw, the first success ends the
\* ladder, at most three grammar calls are made, and parseContent returns a
\* list and never throws
C29_ParseLadder == LadderFollowed(firstLines) /\ LadderReturnsList

\* C29 as amended: the third attempt of the JavaScript parser is on the
\* first 50 lines when the second error was an 'Invalid argument', and its
\* second attempt is on a text cleaned further when the first error was one
C29_ParseLadderByError ==
    /\ LadderFollowed(IF /\ Len(ladder.calls) >= 3
                         /\ ladder.language = "javascript"
                         /\ ladder.outcomes[2] = "Invalid argument"
                      THEN invalidArgumentLines ELSE firstLines)
    /\ Len(ladder.calls) >= 2 =>
           (ladder.calls[2].aggressive <=>
                ladder.language = "javascript" /\ ladder.outcomes[1] = "Invalid argument")
    /\ LadderReturnsList

\* C29 witness: a JavaScript file of more than 50 lines whose three grammar
\* calls threw, the second with 'Invalid argument': the third call was on 50
\* lines and the line fallback was returned
C29_Witness ==
    /\ ladder.pc = "done"
    /\ ladder.language = "javascript"
    /\ ladder.content.lines > invalidArgumentLines
    /\ Len(ladder.calls) = 3
    /\ ladder.outcomes[2] = "Invalid argument"
    /\ Threw(ladder.outcomes[3])
    /\ ladder.calls[3].lineLimit = invalidArgumentLines
    /\ ladder.result = "fallback"

\* the extension of the last path selected, lower-cased
SelectedExtension == ToLowerCase(selected.filePath.ext)

\* selectParser returned the AST parser iff the extension maps to a
\* registered language, and did not throw
C26_SelectionRule ==
    selected.op = "selectParser" =>
        /\ ~selected.thrown
        /\ selected.parser \in {"ast", "readline"}
        /\ selected.parser = "ast" <=>
               /\ selected.filePath.isString
               /\ \E m \in registry.languageMapping :
                      m[1] = SelectedExtension /\ m[2] \in registry.plugins

\* a .c or .h file is chunked by the line chunker when the mapping has no
\* C or the grammar of C is not loaded
C26_CFallsToLineChunker ==
    (/\ selected.op \in {"selectParser", "parse"}
     /\ selected.filePath.isString
     /\ SelectedExtension \in {".c", ".h"}
     /\ \/ ~registry.cLanguage
        \/ ~\E m \in registry.languageMapping : m[2] = "c")
        => /\ selected.parser = "readline"
           /\ selected.op = "parse" => selected.chunker = "readline"

\* C26: selectParser chooses by the lower-cased extension: the AST parser
\* iff the extension maps to a language registered in the plugin registry,
\* the line parser for every other path, never throwing; and .c/.h files
\* are chunked by the line chunker whenever the C parser is disabled or its
\* grammar cannot be loaded
C26_SelectByExtension == C26_SelectionRule /\ C26_CFallsToLineChunker

LinesIn(chunk) == chunk.endLine - chunk.startLine + 1

\* the bytes of lines s..e, each with a newline
RECURSIVE LineSizes(_, _)
LineSizes(s, e) == IF s > e THEN 0 ELSE file[s] + 1 + LineSizes(s + 1, e)

\* C30: every chunk of the line chunker holds between 1 and linesPerChunk
\* lines, and a chunk ends before a line exactly when it holds
\* linesPerChunk lines or when the line would make its content longer than
\* 9216 bytes: every chunk but the last is maximal
C30_LineChunksMaximal ==
    parser = "line" =>
        /\ \A k \in ChunkIndex : LinesIn(chunks[k]) \in 1..linesPerChunk
        /\ \A k \in ChunkIndex :
               LinesIn(chunks[k]) > 1 => ByteLength(file, chunks[k].content) <= maxChunkSize
        /\ \A k \in 1..(Len(chunks) - 1) :
               \/ LinesIn(chunks[k]) = linesPerChunk
               \/ ByteLength(file, JoinLines(file, chunks[k].startLine,
                                               chunks[k].endLine + 1, 0)) > maxChunkSize

\* C30 as amended: the same with the size the loop keeps, which counts a
\* newline for every line, the line to add included: a chunk ends before a
\* line when the bytes of its lines and of that line, plus one per line,
\* exceed 9216
C30_LineChunksMaximalCounted ==
    parser = "line" =>
        /\ \A k \in ChunkIndex : LinesIn(chunks[k]) \in 1..linesPerChunk
        /\ \A k \in ChunkIndex :
               LinesIn(chunks[k]) > 1
                   => LineSizes(chunks[k].startLine, chunks[k].endLine) <= maxChunkSize
        /\ \A k \in 1..(Len(chunks) - 1) :
               \/ LinesIn(chunks[k]) = linesPerChunk
               \/ LineSizes(chunks[k].startLine, chunks[k].endLine + 1) > maxChunkSize

\* C30 witness: two lines that are 9216 bytes when joined are in two chunks
C30_Witness ==
    /\ parser = "line"
    /\ linesPerChunk >= 2
    /\ Len(file) = 2
    /\ ByteLength(file, JoinLines(file, 1, 2, 0)) = maxChunkSize
    /\ Len(chunks) = 2

\* C24: in the list a chunker returns every chunk starts at or after the
\* line the chunk before it starts at
C24_AscendingStartLine ==
    \A k \in 1..(Len(chunks) - 1) : chunks[k].startLine <= chunks[k + 1].startLine

\* C25: every chunk a chunker returns has endLine >= startLine >= 1
C25_LineRangeWellFormed ==
    \A k \in ChunkIndex :
        chunks[k].startLine >= 1 /\ chunks[k].endLine >= chunks[k].startLine

\* C25 witness: a merging parser joined two nodes into one chunk of
\* several lines
C25_Witness ==
    /\ parser = "go"
    /\ Len(nodes) >= 2
    /\ Len(chunks) = 1
    /\ chunks[1].endLine > chunks[1].startLine
    /\ \A k \in 1..Len(nodes) :
           nodes[k].startLine # chunks[1].startLine \/ nodes[k].endLine # chunks[1].endLine

(***************************************************************************)
(* Claims about concurrent callers and about the pipeline.                 *)
(***************************************************************************)
\* C9: under concurrent get, has and set on one key a completed set is never
\* undone: the lazy deletion of a get or a has removes only a row older than
\* ttlHours, never the row a completed set wrote since
C9_CompletedSetNotUndone ==
    [][\A c \in Calls :
          (calls[c].pc = "deleteEntry" /\ calls'[c].pc = "idle") =>
              \A r \in table \ table' :
                  (\A w \in Calls : calls[w].op = "set" => KeyOf(calls[w]) # r.cache_key)
                      => now - r.created_at > config.ttlHours]_vars

\* C3: when a run of processWorkspace that returned true is followed, its
\* cache stores done, by a second run on the unchanged workspace, the second
\* run finds every scanned file cached and hands no file to the dispatcher
C3_SecondRunAllCached ==
    (/\ Len(runs) = 2 /\ runs[1].result = "true" /\ runs[2].pendingStores = {}
     /\ runs[1].cacheError = "none" /\ runs[2].cacheError = "none"
     /\ failedStores = {}) =>
        /\ runs[2].cached = fileList
        /\ runs[2].uncached = {}
        /\ runs[2].dispatched = {}

\* C11: a failure of the cache database during a run of processWorkspace is
\* not surfaced: unless the dispatcher crashed the run returns true, and when
\* the lookup failed every scanned file went to the dispatcher
C11_CacheFailureNotSurfaced ==
    \A i \in 1..Len(runs) :
        (runs[i].cacheError # "none" /\ ~runs[i].crashed) =>
            /\ runs[i].result = "true"
            /\ runs[i].cacheError \in {"initialize", "has"} => runs[i].dispatched = fileList

\* C10: processWorkspace returns true iff the sink accepted at least one
\* chunk or every file was a cache hit, and false only if the dispatcher
\* crashed
C10_ReturnValue ==
    \A i \in 1..Len(runs) :
        /\ runs[i].result = "true" <=> (runs[i].accepted >= 1 \/ runs[i].uncached = {})
        /\ runs[i].result = "false" => runs[i].crashed

RowsOf(filePath, fileHash) ==
    {r \in table : r.file_path = filePath /\ r.file_hash = fileHash}

C22_CleanDeletesExpiredOnly ==
    [][(ret'.op = "cleanExpiredEntries" /\ now' = now) =>
          /\ \A r \in table' : ~(now - r.created_at > config.ttlHours)
          /\ \A r \in table : r.created_at < now - config.ttlHours => r \notin table'
          /\ \A r \in table : ~(now - r.created_at > config.ttlHours) => r \in table'
          /\ table' \subseteq table]_vars

\* C22 witness: a cleaning deleted a row and kept another
C22_Witness ==
    /\ ret.op = "cleanExpiredEntries"
    /\ ret.deletedCount > 0
    /\ table # {}

\* C21: after invalidateCache(path) no cached entry of the path remains for
\* any hash, so the next parse or parseFile of the file is a miss and runs
\* the underlying parser; the entries of the other paths are unchanged
C21_InvalidateForgetsFile ==
    [][ret'.op = "invalidateCache" =>
          /\ \A h \in Hashes :
                 /\ GetValue(table', generateCacheKey(ParseCacheKey(ret'.path, h), h)) = NULL
                 /\ GetValue(table', generateCacheKey(ret'.path, h)) = NULL
          /\ \A r \in table :
                 (\A h \in Hashes : r.file_path \notin {ret'.path, ParseCacheKey(ret'.path, h)})
                     => r \in table'
          /\ table' \subseteq table]_vars

(***************************************************************************)
(* Claims about ProgressTracker.                                           *)
(***************************************************************************)
FilesWithChunks == {tracker.chunks[id].filePath : id \in DOMAIN tracker.chunks}

ChunkStatusesOf(filePath) ==
    {tracker.chunks[id].status : id \in ChunksOf(tracker, filePath)}

\* C13: after an updateChunkStatus call the status of a file that has chunks
\* is processing if a chunk is processing, completed if all are completed,
\* failed if a chunk is failed and none is processing, otherwise pending
C13_FileStatusDerived ==
    lastCall.recomputed =>
        \A f \in FilesWithChunks :
            /\ f \in DOMAIN tracker.fileStatus
            /\ tracker.fileStatus[f] =
                   (IF "processing" \in ChunkStatusesOf(f) THEN "processing"
                    ELSE IF ChunkStatusesOf(f) = {"completed"} THEN "completed"
                    ELSE IF "failed" \in ChunkStatusesOf(f) THEN "failed"
                    ELSE "pending")

\* C13 as amended: after an updateChunkStatus call that changed a registered
\* chunk the status of a file that has chunks is processing if a chunk is
\* processing, completed if all are completed, failed if a chunk is failed
\* and every chunk is completed or failed, otherwise pending
C13_FileStatusAllTerminal ==
    lastCall.recomputed =>
        \A f \in FilesWithChunks :
            /\ f \in DOMAIN tracker.fileStatus
            /\ tracker.fileStatus[f] =
                   (IF "processing" \in ChunkStatusesOf(f) THEN "processing"
                    ELSE IF ChunkStatusesOf(f) = {"completed"} THEN "completed"
                    ELSE IF "failed" \in ChunkStatusesOf(f)
                            /\ ChunkStatusesOf(f) \subseteq {"completed", "failed"}
                         THEN "failed"
                    ELSE "pending")

\* C13 witness: an update left a file with a failed and a pending chunk
C13_Witness ==
    /\ lastCall.op = "updateChunkStatus" /\ lastCall.recomputed
    /\ ChunkStatusesOf("a.go") = {"failed", "pending"}
    /\ tracker.fileStatus["a.go"] = "pending"

PartStatuses(id) ==
    {tracker.chunks[id].splitChunks[k] : k \in DOMAIN tracker.chunks[id].splitChunks}

\* C14: a chunk that hears of its parts only is completed only if every part
\* that reported is completed, is failed once all reported parts are
\* completed or failed and one is failed, and is never completed or failed
\* while a reported part is pending or processing
C14_SplitAggregation ==
    \A id \in DOMAIN tracker.chunks :
        PartStatuses(id) # {} =>
            /\ tracker.chunks[id].status = "completed" => PartStatuses(id) = {"completed"}
            /\ ("failed" \in PartStatuses(id) /\ PartStatuses(id) \subseteq {"completed", "failed"})
                   => tracker.chunks[id].status = "failed"
            /\ tracker.chunks[id].status \in {"completed", "failed"}
                   => PartStatuses(id) \cap {"pending", "processing"} = {}

\* C15: the file progress percentage is within 0 and 100: the completed,
\* processing and failed files together are at most totalFiles
C15_FileProgressInRange ==
    LET progress == getFileProgress(tracker)
    IN  /\ progress.completedFiles + progress.processingFiles + progress.failedFiles
               <= progress.totalFiles
        /\ progress.pendingFiles >= 0
        /\ progress.progressPercentage.num >= 0
        /\ progress.progressPercentage.num <= 100 * progress.progressPercentage.den

\* C36: after any sequence of registerChunk and updateChunkStatus calls, for
\* every file, fileProgress.total is the number of registered chunks of the
\* file, each of pending, processing, completed and failed is the number of
\* its chunks in that status, all are at least 0 and they sum to total
C36_ChunkCountersMatch ==
    /\ \A id \in DOMAIN tracker.chunks : tracker.chunks[id].filePath \in DOMAIN tracker.fileProgress
    /\ \A f \in DOMAIN tracker.fileProgress :
           LET fileStats == tracker.fileProgress[f]
               registered == {id \in DOMAIN tracker.chunks : tracker.chunks[id].filePath = f}
           IN  /\ fileStats.total = Cardinality(registered)
               /\ \A status \in Statuses :
                      /\ fileStats[status]
                             = Cardinality({id \in registered : tracker.chunks[id].status = status})
                      /\ fileStats[status] >= 0
               /\ fileStats.pending + fileStats.processing + fileStats.completed
                      + fileStats.failed = fileStats.total

\* every chunk id is registered, one chunk failed and the split chunk was
\* completed through its parts
C36_Witness ==
    /\ DOMAIN tracker.chunks = ChunkNumbers
    /\ lastCall.op = "updateSplitChunk"
    /\ lastCall.recomputed
    /\ tracker.chunks[1].status = "completed"
    /\ \E id \in ChunkNumbers : tracker.chunks[id].status = "failed"

\* the last run of processWorkspace found every scanned file in the cache
AllCachedRun ==
    /\ runs # <<>>
    /\ runs[Len(runs)].cacheError \notin {"initialize", "has"}
    /\ runs[Len(runs)].uncached = {}

FileProgressIsFull ==
    /\ \A f \in DOMAIN tracker.fileStatus : tracker.fileStatus[f] = "completed"
    /\ getFileProgress(tracker).progressPercentage.num
           = 100 * getFileProgress(tracker).progressPercentage.den

C31_NoChangeOnlyIfSameMaps ==
    (/\ merkleRet.op = "detectChanges"
     /\ ~merkleRet.thrown
     /\ lastState # NULL
     /\ ~merkleRet.changes.hasChanges
     /\ merkleRet.changes.changedFiles = <<>>)
        => lastState.fileHashMap = currentState.fileHashMap

ChangedPaths(changedFiles, changeType) ==
    {changedFiles[i].path : i \in {j \in 1..Len(changedFiles) :
                                      changedFiles[j].changeType = changeType}}

EachPathOnce(changedFiles) ==
    \A i \in 1..Len(changedFiles) : \A j \in 1..Len(changedFiles) :
        i # j => changedFiles[i].path # changedFiles[j].path

\* detectChanges has just compared two snapshots whose root hashes differ
ComparedMaps ==
    /\ merkleRet.op = "detectChanges"
    /\ ~merkleRet.thrown
    /\ lastState # NULL
    /\ currentState.rootHash # lastState.rootHash

\* C17: when the root hashes differ detectChanges returns the difference of
\* the two maps: added are the paths only in the current map, modified the
\* paths in both with different hashes, deleted the paths only in the
\* previous map; every changed path is listed once and the summary counts
\* are the numbers of listed paths
C17_DetectChangesIsMapDifference ==
    ComparedMaps =>
        LET oldMap == lastState.fileHashMap
            newMap == currentState.fileHashMap
            changedFiles == merkleRet.changes.changedFiles
            summary == merkleRet.changes.summary
        IN  /\ ChangedPaths(changedFiles, "added") = DOMAIN newMap \ DOMAIN oldMap
            /\ ChangedPaths(changedFiles, "modified") =
                   {f \in DOMAIN newMap \cap DOMAIN oldMap : oldMap[f].hash # newMap[f].hash}
            /\ ChangedPaths(changedFiles, "deleted") = DOMAIN oldMap \ DOMAIN newMap
            /\ EachPathOnce(changedFiles)
            /\ summary.added = Cardinality(ChangedPaths(changedFiles, "added"))
            /\ summary.modified = Cardinality(ChangedPaths(changedFiles, "modified"))
            /\ summary.deleted = Cardinality(ChangedPaths(changedFiles, "deleted"))
            /\ summary.total = Len(changedFiles)

\* the state file is missing, unreadable, not JSON, or of another version
DiscardedSnapshot ==
    \/ stateFile \in {MissingFile, UnreadableFile}
    \/ /\ stateFile.kind = "data"
       /\ LET text == IF "gzip64" \in DOMAIN stateFile.data
                      THEN stateFile.data.gzip64 ELSE stateFile.data
          IN  \/ "json" \notin DOMAIN text
              \/ text.json = JsonNull
              \/ text.json.version # "2.0"

\* C18: with a state file that is missing, unreadable, not JSON or of a
\* version other than 2.0, initialize returns with lastState null, and the
\* next detectChanges reports an initial build with every current file added
C18_BadSnapshotIsInitialBuild ==
    DiscardedSnapshot =>
        /\ lastState = NULL
        /\ merkleRet.op = "initialize" =>
               (merkleRet.thrown <=> ~isInitialized)
        /\ (merkleRet.op = "detectChanges" /\ ~merkleRet.thrown) =>
               /\ merkleRet.changes.changeType = "initial_build"
               /\ ChangedPaths(merkleRet.changes.changedFiles, "added")
                      = DOMAIN currentState.fileHashMap
               /\ Len(merkleRet.changes.changedFiles)
                      = Cardinality(DOMAIN currentState.fileHashMap)
               /\ merkleRet.changes.summary.added = Len(merkleRet.changes.changedFiles)

\* C18 witness: a snapshot of version 1.0 was loaded and discarded, and
\* detectChanges listed two files as added
C18_Witness ==
    /\ stateFile.kind = "data"
    /\ DiscardedSnapshot
    /\ JSONparse(Gunzip64(stateFile.data)) \notin {Undefined, JsonNull}
    /\ isInitialized
    /\ merkleRet.op = "detectChanges"
    /\ ~merkleRet.thrown
    /\ Len(merkleRet.changes.changedFiles) = 2

(***************************************************************************)
(* IndexCacheService: persistence, the write queue and the retries.        *)
(***************************************************************************)
\* C37: every change to the in-memory records is eventually written to the
\* cache file when file operations succeed and timers fire, also a change
\* made while an earlier save is in flight or before destroy
C37_ChangesPersisted ==
    \A n \in 1..MaxChanges : (n \in service.cache) ~> (n \in service.fileRecords)

\* operations that executeWithQueue can be given: one per change, one by
\* destroy and one by recoverFromError
MaxOps == MaxChanges + 2

Settled(i) ==
    /\ i \in DOMAIN service.ops
    /\ service.ops[i].state \in {"resolved", "rejected"}

QueueSafe ==
    /\ Cardinality({i \in DOMAIN service.ops : service.ops[i].state = "running"}) <= 1
    /\ \A i \in DOMAIN service.startOrder : service.startOrder[i] = i
    /\ \A i \in DOMAIN service.ops :
           /\ service.ops[i].starts <= 1
           /\ service.ops[i].state # "queued" => service.ops[i].starts = 1
           /\ service.ops[i].state = "queued"
                  => \E k \in DOMAIN service.pendingWrites : service.pendingWrites[k] = i
    /\ (service.pendingWrites = <<>> /\ \A i \in DOMAIN service.ops : Settled(i))
           => ~service.isWriting

\* C38: the write queue runs at most one operation at a time, starts the
\* operations in the order they were queued, runs every queued operation
\* exactly once and settles its promise, also after an operation that was
\* rejected, and isWriting is false whenever the queue is idle
C38_WriteQueue ==
    /\ []QueueSafe
    /\ \A i \in 1..MaxOps : (i \in DOMAIN service.ops) ~> Settled(i)

\* an operation runs after the one before it was rejected, a third one waits
C38_Witness ==
    /\ Len(service.ops) = 3
    /\ service.ops[1].state = "rejected"
    /\ service.ops[2].state = "running"
    /\ service.pendingWrites = <<3>>
    /\ service.isWriting

\* C39: within one saveCache or loadCache call the read, the backup copy and
\* the write are each attempted at most maxRetries times
C39_AttemptsBounded ==
    /\ service.load.reads <= maxRetries
    /\ service.running.copies <= maxRetries
    /\ service.running.writes <= maxRetries

====
